---- MODULE Spec2Model ----
(***************************************************************************)
(* State-machine model of the BEO workflow backend (backend/app/main_db.py *)
(* with models.py and database.py): the document registry (beos, beo_pages,*)
(* annotations tables), the artifact store (originals, thumbnails,         *)
(* high_res directories) and the request handlers that change them.        *)
(***************************************************************************)
EXTENDS Integers, Sequences, FiniteSets, TLC

\* Python None / SQL NULL in a string column.
NULL == "None"
\* Python None / SQL NULL in an integer or datetime column.
NULLINT == 0
\* Python None / SQL NULL in a file path column.
NOPATH == <<>>

---------------------------------------------------------------------------
(* Bounds of the model.                                                    *)

\* Number of session ids (uuid4 values) that can be generated in a run.
MaxIds == 3
\* Largest page count of an uploaded PDF.
MaxPdfPages == 2
\* Number of requests served in a run.
MaxSteps == 3
\* Number of requests that run at the same time (worker processes, each
\* with its own database session).
MaxInFlight == 2
\* Number of WebSocket connections opened in a run of the in-memory variant.
MaxSockets == 2
\* Number of sessions uploaded in a run of the in-memory variant.
MaxSessions == 1
\* Number of save_annotation requests in a run of the in-memory variant.
MaxBroadcasts == 1
\* Number of image files missing from the storage directories at a time.
MaxLost == 1
\* Number of WebSocket connections where clients send messages.
MaxRelaySockets == 3
\* Number of messages the clients send over their WebSockets in a run.
MaxMessages == 1

---------------------------------------------------------------------------
(* Calendar arithmetic of Python's datetime, as used by the handlers.     *)
(* A datetime is the integer  toordinal * 24 + hour.                       *)

IsLeap(y) == (y % 4 = 0) /\ ((y % 100 # 0) \/ (y % 400 = 0))

DaysInMonth(y, m) ==
    IF m = 2 THEN (IF IsLeap(y) THEN 29 ELSE 28)
    ELSE IF m \in {4, 6, 9, 11} THEN 30 ELSE 31

DaysBeforeYear(y) ==
    (y - 1) * 365 + ((y - 1) \div 4) - ((y - 1) \div 100) + ((y - 1) \div 400)

RECURSIVE DaysBeforeMonth(_, _)
DaysBeforeMonth(y, m) ==
    IF m <= 1 THEN 0 ELSE DaysBeforeMonth(y, m - 1) + DaysInMonth(y, m - 1)

\* datetime(y, m, d) raises ValueError unless this holds.
ValidYmd(y, m, d) ==
    /\ y \in 1..9999
    /\ m \in 1..12
    /\ d \in 1..DaysInMonth(y, m)

Ymd2Ord(y, m, d) == DaysBeforeYear(y) + DaysBeforeMonth(y, m) + d

\* datetime(y, m, d, h) as an integer number of hours.
DateTime(y, m, d, h) == Ymd2Ord(y, m, d) * 24 + h

ToOrdinal(dt) == dt \div 24

\* dt.year
YearOf(dt) ==
    CHOOSE y \in (ToOrdinal(dt) \div 366)..((ToOrdinal(dt) \div 365) + 1) :
        DaysBeforeYear(y) < ToOrdinal(dt) /\ ToOrdinal(dt) <= DaysBeforeYear(y + 1)

\* date.weekday(): Monday = 0 .. Sunday = 6.
Weekday(dt) == (ToOrdinal(dt) + 6) % 7

DayNames ==
    <<"Monday", "Tuesday", "Wednesday", "Thursday", "Friday", "Saturday", "Sunday">>

\* dt.strftime("%A")
StrftimeA(dt) == DayNames[Weekday(dt) + 1]

IsoWeek1Monday(y) ==
    LET firstday == Ymd2Ord(y, 1, 1)
        firstweekday == (firstday + 6) % 7
        week1monday == firstday - firstweekday
    IN  IF firstweekday > 3 THEN week1monday + 7 ELSE week1monday

\* dt.isocalendar()[1] for a datetime of calendar year y.
IsoWeekNumber(y, dt) ==
    LET today == ToOrdinal(dt)
        week == (today - IsoWeek1Monday(y)) \div 7
    IN  IF week < 0 THEN ((today - IsoWeek1Monday(y - 1)) \div 7) + 1
        ELSE IF week >= 52 /\ today >= IsoWeek1Monday(y + 1) THEN 1
        ELSE week + 1

\* An ISO date string "YYYY-MM-DD[THH:00:00]" is the record of its fields;
\* a string that is no date at all has year 0.
IsoString(y, m, d, h) == [y |-> y, m |-> m, d |-> d, h |-> h]

\* datetime.fromisoformat(s) raises ValueError unless this holds.
IsoParses(s) == ValidYmd(s.y, s.m, s.d) /\ s.h \in 0..23

\* datetime.fromisoformat(s)
FromIsoFormat(s) == DateTime(s.y, s.m, s.d, s.h)

\* The four calendar columns of a BEO row written from a datetime of year y.
DateColumns(y, dt) ==
    [event_date |-> dt, day_of_week |-> StrftimeA(dt),
     week_number |-> IsoWeekNumber(y, dt), year |-> y]

NoDateColumns ==
    [event_date |-> NULLINT, day_of_week |-> NULL, week_number |-> NULLINT,
     year |-> NULLINT]

---------------------------------------------------------------------------
(* Inputs of the requests.                                                 *)

\* Bytes that pdf2image cannot parse (no page comes out): convert_from_bytes
\* raises.
Malformed == 0

\* The bytes of an uploaded file, told apart by what the rasterizer makes of
\* them: a number of pages, or an exception.
Pdfs == (1..MaxPdfPages) \cup {Malformed}

\* A filename "MMDD Word.ext" is the record of its parts; mm = -1 when the
\* name does not start with four digits and whitespace.
FileName(mm, dd, word, ext) == [mm |-> mm, dd |-> dd, word |-> word, ext |-> ext]

Filenames ==
    { FileName(10, 28, "Tuesday", ".pdf"),
      FileName(-1, -1, "menu", ".pdf"),
      FileName(-1, -1, "notes", ".txt") }

FileTypes == {"daily", "addition"}

\* datetime.now() at the time of a request.
Nows == { IsoString(2025, 10, 20, 9) }

\* event_date strings sent by clients; the last one is no valid date.
DateStrings ==
    { IsoString(2025, 10, 28, 0), IsoString(2025, 10, 29, 0), IsoString(2025, 13, 1, 0) }

\* No event_date string (None or "").
NoDateString == IsoString(0, 0, 0, 0)

\* order_position values sent by clients (any integer is accepted).
OrderPositions == (-1)..MaxIds

\* annotation_data payloads (opaque JSON).
Payloads == {"a", "b"}

\* page_index values sent with an annotation (any integer is accepted).
AnnotationIndices == 0..MaxPdfPages

\* beo_number values sent by clients.
BeoNumbers == {"1234567"}

\* More image-file writes than any request makes.
NoFault == 2 * MaxIds * MaxPdfPages + 1

\* Number of image-file writes of a request that succeed before one raises
\* OSError; no write fails when the request makes no more writes than that.
Faults == (0..MaxPdfPages) \cup {NoFault}

---------------------------------------------------------------------------
(* State.                                                                  *)

VARIABLES
    beos,         \* table beos: session id -> row (models.py BEO)
    pages,        \* table beo_pages: set of rows (models.py BEOPage)
    annotations,  \* table annotations: sequence of rows (models.py Annotation)
    originals,    \* ORIGINALS_DIR: session id -> bytes of "{sid}.pdf"
    thumbnails,   \* THUMBNAILS_DIR: set of <<sid, idx>> for "{sid}_thumb_{idx}.jpg"
    high_res,     \* HIGH_RES_DIR: set of <<sid, idx>> for "{sid}_highres_{idx}.jpg"
    nextId,       \* the next uuid4 / primary key to be generated
    steps,        \* number of requests served
    last,         \* the last request served and its HTTP status
    reqs,         \* requests in flight, each with what it has read so far
    sessions,            \* main.py sessions: session id -> session dict
    active_connections,  \* main.py active_connections: session id -> list object
    lists,               \* the list objects of active_connections: id -> WebSockets
    sockets,             \* the WebSockets accepted so far and their endpoint tasks
    tasks,               \* main.py save_annotation requests, running or answered
    sends                \* every connection.send_text of a broadcast, in order

\* The state of the in-memory variant (main.py).
mainvars == <<sessions, active_connections, lists, sockets, tasks, sends>>

vars == <<beos, pages, annotations, originals, thumbnails, high_res, nextId, steps,
          last, reqs, sessions, active_connections, lists, sockets, tasks, sends>>

\* The committed registry and the artifact store, as one value.
World ==
    [beos |-> beos, pages |-> pages, annotations |-> annotations,
     originals |-> originals, thumbnails |-> thumbnails, high_res |-> high_res,
     nextId |-> nextId]

EmptyWorld ==
    [beos |-> <<>>, pages |-> {}, annotations |-> <<>>,
     originals |-> <<>>, thumbnails |-> {}, high_res |-> {},
     nextId |-> 1]

\* db.commit(): the rows flushed in this session become the committed rows.
Commit(committed, pending) == pending

\* Rollback that keeps the session's rows.
RollbackNothing(committed, pending) == pending

\* db.rollback(): the session's rows are discarded; files already written stay.
Rollback(committed, pending) ==
    [pending EXCEPT !.beos = committed.beos, !.pages = committed.pages,
                    !.annotations = committed.annotations]

\* Close that keeps the session's rows.
CloseNothing(committed, pending) == pending

\* get_db's finally: db.close() on a session that was not committed.
Close(committed, pending) ==
    [pending EXCEPT !.beos = committed.beos, !.pages = committed.pages,
                    !.annotations = committed.annotations]

\* BEO(...) with the column defaults of models.py.
BEO(filename, beo_number, total_pages, status, file_type, cols, order_position) ==
    [filename |-> filename, beo_number |-> beo_number,
     event_date |-> cols.event_date, day_of_week |-> cols.day_of_week,
     week_number |-> cols.week_number, year |-> cols.year,
     order_position |-> order_position, status |-> status, file_type |-> file_type,
     is_active |-> TRUE, total_pages |-> total_pages]

\* BEOPage(...)
BEOPage(beo_id, page_index, original_order, thumbnail_path, high_res_path) ==
    [beo_id |-> beo_id, page_index |-> page_index, original_order |-> original_order,
     thumbnail_path |-> thumbnail_path, high_res_path |-> high_res_path]

\* Annotation(...)
Annotation(beo_id, page_index, canvas_data) ==
    [beo_id |-> beo_id, page_index |-> page_index, canvas_data |-> canvas_data]

\* db.query(BEO).filter(BEO.session_id == sid).first() finds a row.
Known(w, sid) == sid \in DOMAIN w.beos

\* db.query(BEOPage).filter(BEOPage.beo_id == id)
PagesOf(w, id) == { p \in w.pages : p.beo_id = id }

\* Indices of the annotation rows of (id, idx).
AnnotationRows(w, id, idx) ==
    { i \in DOMAIN w.annotations :
        w.annotations[i].beo_id = id /\ w.annotations[i].page_index = idx }

\* convert_from_bytes(pdf_bytes, dpi=...): the page numbers rendered.
Rasterize(pdf) == 0..(pdf - 1)

\* What is kept of a served request: the handler, the HTTP status, the
\* session id it was about (the first one it generated, for the uploads and
\* process_all_pages) and, where a property needs them, its arguments
\* (the filename of upload_pdf, the request and the high_res_pages keys of
\* process_selected_pages, the selected_pages of select_pages, the requests
\* of save_annotation and create_beo_from_pages, the session_ids of
\* process_all_pages) or the order_position values its query read, in
\* the query's order (reorder_beo).
\* again: the request before it was the same request and succeeded.
\* now: what datetime.now() returned in parse_filename_date (upload_pdf).
\* dates: the date strings the request carried (upload_multiple_pdfs,
\* update_beo_metadata, reorder_beo, get_day_beos).
Response(op, code, sid, arg) ==
    [op |-> op, code |-> code, sid |-> sid, arg |-> arg, again |-> FALSE,
     now |-> NoDateString, dates |-> {}]

Init ==
    /\ beos = EmptyWorld.beos
    /\ pages = EmptyWorld.pages
    /\ annotations = EmptyWorld.annotations
    /\ originals = EmptyWorld.originals
    /\ thumbnails = EmptyWorld.thumbnails
    /\ high_res = EmptyWorld.high_res
    /\ nextId = EmptyWorld.nextId
    /\ steps = 0
    /\ last = Response("init", 200, NULLINT, NULLINT)
    /\ reqs = <<>>
    /\ sessions = <<>>
    /\ active_connections = <<>>
    /\ lists = <<>>
    /\ sockets = <<>>
    /\ tasks = <<>>
    /\ sends = <<>>

\* The request is served: its world and its response become the state.
Serve(w, resp) ==
    /\ beos' = w.beos
    /\ pages' = w.pages
    /\ annotations' = w.annotations
    /\ originals' = w.originals
    /\ thumbnails' = w.thumbnails
    /\ high_res' = w.high_res
    /\ nextId' = w.nextId
    /\ steps' = steps + 1
    /\ last' = [resp EXCEPT !.again = (resp.op = last.op /\ resp.sid = last.sid
                                        /\ resp.arg = last.arg /\ last.code = 200)]
    /\ UNCHANGED mainvars

---------------------------------------------------------------------------
(* Ingest: upload_pdf and upload_multiple_pdfs.                            *)

\* parse_filename_date that moves to next year from 180 days on.
ParseFilenameDateFrom180(filename, now) ==
    LET matches == filename.mm \in 0..99 /\ filename.dd \in 0..99
                   /\ filename.ext \in {".pdf", ".PDF"}
        year == now.y
        event_date == DateTime(year, filename.mm, filename.dd, 0)
    IN  IF ~matches \/ ~ValidYmd(year, filename.mm, filename.dd) THEN NoDateColumns
        ELSE IF ((FromIsoFormat(now) - event_date) \div 24) >= 180
             THEN IF ValidYmd(year + 1, filename.mm, filename.dd)
                  THEN DateColumns(year + 1,
                                   DateTime(year + 1, filename.mm, filename.dd, 0))
                  ELSE NoDateColumns
             ELSE DateColumns(year, event_date)

\* parse_filename_date(filename) at time now: the calendar columns, or none.
ParseFilenameDate(filename, now) ==
    LET matches == filename.mm \in 0..99 /\ filename.dd \in 0..99
                   /\ filename.ext \in {".pdf", ".PDF"}
        year == now.y
        event_date == DateTime(year, filename.mm, filename.dd, 0)
    IN  IF ~matches \/ ~ValidYmd(year, filename.mm, filename.dd) THEN NoDateColumns
        ELSE IF ((FromIsoFormat(now) - event_date) \div 24) > 180
             THEN IF ValidYmd(year + 1, filename.mm, filename.dd)
                  THEN DateColumns(year + 1,
                                   DateTime(year + 1, filename.mm, filename.dd, 0))
                  ELSE NoDateColumns
             ELSE DateColumns(year, event_date)

\* StorePdf that adds the page rows without writing the thumbnail files.
StorePdfNoThumbnails(w, filename, pdf, file_type, cols, fault) ==
    LET sid == w.nextId
        w1 == [w EXCEPT !.nextId = sid + 1, !.originals = (sid :> pdf) @@ @]
    IN  IF pdf = Malformed THEN [ok |-> FALSE, w |-> w1]
        ELSE
          LET images == Rasterize(pdf)
              beo == BEO(filename, NULL, Cardinality(images), "new", file_type, cols, 0)
          IN  [ok |-> TRUE,
               w  |-> [w1 EXCEPT
                         !.beos = (sid :> beo) @@ @,
                         !.pages = @ \cup { BEOPage(sid, i, i, <<sid, i>>, NOPATH) : i \in images }]]

\* The body shared by both upload handlers for one file: save the original,
\* rasterize, add the BEO row, then a thumbnail file and a page row per page.
\* fault is the number of thumbnail writes that succeed before one raises.
\* ok is FALSE when an exception ended it; w holds what was written until then.
StorePdf(w, filename, pdf, file_type, cols, fault) ==
    LET sid == w.nextId
        w1 == [w EXCEPT !.nextId = sid + 1, !.originals = (sid :> pdf) @@ @]
    IN  IF pdf = Malformed THEN [ok |-> FALSE, w |-> w1]
        ELSE
          LET images == Rasterize(pdf)
              failed == fault \in images
              done == IF failed THEN { i \in images : i < fault } ELSE images
              beo == BEO(filename, NULL, Cardinality(images), "new", file_type, cols, 0)
          IN  [ok |-> ~failed,
               w  |-> [w1 EXCEPT
                         !.beos = (sid :> beo) @@ @,
                         !.thumbnails = @ \cup { <<sid, i>> : i \in done },
                         !.pages = @ \cup { BEOPage(sid, i, i, <<sid, i>>, NOPATH) : i \in done }]]

\* upload_pdf(file, file_type)
upload_pdf(w, filename, pdf, file_type, now, fault) ==
    IF filename.ext # ".pdf"
    THEN \* the HTTPException(400) is caught by the handler's own except clause
         [code |-> 500, sid |-> NULLINT, w |-> Rollback(w, w)]
    ELSE LET r == StorePdf(w, filename, pdf, file_type,
                           ParseFilenameDate(filename, now), fault)
         IN  IF r.ok THEN [code |-> 200, sid |-> w.nextId, w |-> Commit(w, r.w)]
             ELSE [code |-> 500, sid |-> w.nextId, w |-> Rollback(w, r.w)]

\* upload_multiple_pdfs: the files of the batch in order, each with the entry
\* of file_data for its name (date = NoDateString when it has none; a date
\* that does not parse is logged and dropped).  ok is FALSE once an exception
\* has ended the loop.
RECURSIVE StoreBatch(_, _, _)
StoreBatch(w, files, fault) ==
    IF files = <<>> THEN [ok |-> TRUE, w |-> w]
    ELSE
      LET f == Head(files)
      IN  IF f.filename.ext # ".pdf" THEN StoreBatch(w, Tail(files), fault)
          ELSE
            LET cols == IF IsoParses(f.date)
                        THEN DateColumns(f.date.y, FromIsoFormat(f.date))
                        ELSE NoDateColumns
                r == StorePdf(w, f.filename, f.pdf, f.file_type, cols, fault)
                written == IF f.pdf = Malformed THEN 0 ELSE f.pdf
            IN  IF r.ok THEN StoreBatch(r.w, Tail(files), fault - written)
                ELSE r

upload_multiple_pdfs(w, files, fault) ==
    LET r == StoreBatch(w, files, fault)
    IN  IF r.ok THEN [code |-> 200, sid |-> w.nextId, w |-> Commit(w, r.w)]
        ELSE [code |-> 500, sid |-> w.nextId, w |-> Rollback(w, r.w)]

---------------------------------------------------------------------------
(* Page selection, promotion, annotation.                                  *)

\* select_pages that deletes the page rows that were not selected.
select_pages_drop_unselected(w, sid, selected) ==
    IF ~Known(w, sid) THEN [code |-> 404, w |-> w]
    ELSE [code |-> 200,
          w |-> Commit(w, [w EXCEPT
                  !.beos[sid].status = "selected",
                  !.pages = { p \in @ : p.beo_id = sid =>
                                \E i \in DOMAIN selected : selected[i] = p.page_index }])]

\* select_pages(selection)
select_pages(w, sid, selected) ==
    IF ~Known(w, sid) THEN [code |-> 404, w |-> w]
    ELSE [code |-> 200,
          w |-> Commit(w, [w EXCEPT !.beos[sid].status = "selected"])]

\* The loop of process_selected_pages over selection.selected_pages, with n
\* images rendered.  An index below -n raises IndexError; an index in -n..-1
\* is Python's negative indexing: the file is written, no page row matches.
\* high_res_pages: the keys of the dict the handler returns.
RECURSIVE PromotePages(_, _, _, _, _)
PromotePages(w, sid, n, selected, fault) ==
    IF selected = <<>> THEN [ok |-> TRUE, w |-> w, high_res_pages |-> {}]
    ELSE
      LET page_idx == Head(selected)
      IN  IF page_idx >= n THEN PromotePages(w, sid, n, Tail(selected), fault)
          ELSE IF page_idx < 0 - n \/ fault = 0
          THEN [ok |-> FALSE, w |-> w, high_res_pages |-> {}]
          ELSE
            LET w1 == [w EXCEPT
                         !.high_res = @ \cup {<<sid, page_idx>>},
                         !.pages = { IF p.beo_id = sid /\ p.page_index = page_idx
                                     THEN [p EXCEPT !.high_res_path = <<sid, page_idx>>]
                                     ELSE p : p \in @ }]
                r == PromotePages(w1, sid, n, Tail(selected), fault - 1)
            IN  [r EXCEPT !.high_res_pages = @ \cup {page_idx}]

\* process_selected_pages that deletes the page rows it was not asked for.
process_selected_pages_drop_unselected(w, sid, selected, fault) ==
    IF ~Known(w, sid) THEN [code |-> 404, w |-> w, high_res_pages |-> {}]
    ELSE IF sid \notin DOMAIN w.originals
    THEN [code |-> 500, w |-> Close(w, w), high_res_pages |-> {}]
    ELSE
      LET r == PromotePages(w, sid, Cardinality(Rasterize(w.originals[sid])),
                            selected, fault)
          kept == { p \in r.w.pages :
                      p.beo_id = sid => \E i \in DOMAIN selected : selected[i] = p.page_index }
      IN  IF r.ok
          THEN [code |-> 200,
                w |-> Commit(w, [r.w EXCEPT !.beos[sid].status = "ready_for_annotation",
                                            !.pages = kept]),
                high_res_pages |-> r.high_res_pages]
          ELSE [code |-> 500, w |-> Close(w, r.w), high_res_pages |-> {}]

\* process_selected_pages(selection)
process_selected_pages(w, sid, selected, fault) ==
    IF ~Known(w, sid) THEN [code |-> 404, w |-> w, high_res_pages |-> {}]
    ELSE IF sid \notin DOMAIN w.originals
    THEN \* open() raises FileNotFoundError
         [code |-> 500, w |-> Close(w, w), high_res_pages |-> {}]
    ELSE
      LET r == PromotePages(w, sid, Cardinality(Rasterize(w.originals[sid])),
                            selected, fault)
      IN  IF r.ok
          THEN [code |-> 200,
                w |-> Commit(w, [r.w EXCEPT !.beos[sid].status = "ready_for_annotation"]),
                high_res_pages |-> r.high_res_pages]
          ELSE [code |-> 500, w |-> Close(w, r.w), high_res_pages |-> {}]

\* save_annotation that appends a row on every call.
save_annotation_append(w, sid, page_index, payload, pick) ==
    IF ~Known(w, sid) THEN [code |-> 404, w |-> w]
    ELSE [code |-> 200,
          w |-> [w EXCEPT !.annotations = Append(@, Annotation(sid, page_index, payload)),
                          !.beos[sid].status = "annotated"]]

\* save_annotation that leaves the status of the document as it was.
save_annotation_keep_status(w, sid, page_index, payload, pick) ==
    IF ~Known(w, sid) THEN [code |-> 404, w |-> w]
    ELSE
      LET existing == AnnotationRows(w, sid, page_index)
      IN  [code |-> 200,
           w |-> IF existing # {}
                 THEN [w EXCEPT !.annotations[pick].canvas_data = payload]
                 ELSE [w EXCEPT !.annotations = Append(@, Annotation(sid, page_index, payload))]]

\* save_annotation(annotation); pick is the row .first() returns when the
\* query matches rows.
save_annotation(w, sid, page_index, payload, pick) ==
    IF ~Known(w, sid) THEN [code |-> 404, w |-> w]
    ELSE
      LET existing == AnnotationRows(w, sid, page_index)
          w1 == IF existing # {}
                THEN [w EXCEPT !.annotations[pick].canvas_data = payload]
                ELSE [w EXCEPT !.annotations = Append(@, Annotation(sid, page_index, payload))]
      IN  [code |-> 200, w |-> Commit(w, [w1 EXCEPT !.beos[sid].status = "annotated"])]

\* annotations_dict of get_session: page_index -> canvas_data, a later row
\* replacing an earlier one for the same page.
AnnotationsDict(w, id) ==
    LET rows == { i \in DOMAIN w.annotations : w.annotations[i].beo_id = id }
        Latest(idx) == CHOOSE i \in rows :
                          /\ w.annotations[i].page_index = idx
                          /\ \A j \in rows : w.annotations[j].page_index = idx => j <= i
    IN  [idx \in { w.annotations[i].page_index : i \in rows } |->
           w.annotations[Latest(idx)].canvas_data]

\* The body get_session returns (created_at and updated_at left out).
SessionBody(total_pages, status, annotations_dict) ==
    [total_pages |-> total_pages, status |-> status, annotations |-> annotations_dict]

\* get_session that counts the annotated pages as total_pages.
get_session_count_annotated(w, sid) ==
    IF ~Known(w, sid) THEN [code |-> 404, w |-> w, body |-> SessionBody(NULLINT, NULL, <<>>)]
    ELSE [code |-> 200, w |-> w,
          body |-> SessionBody(Cardinality(DOMAIN AnnotationsDict(w, sid)),
                               w.beos[sid].status, AnnotationsDict(w, sid))]

\* get_session(session_id)
get_session(w, sid) ==
    IF ~Known(w, sid) THEN [code |-> 404, w |-> w, body |-> SessionBody(NULLINT, NULL, <<>>)]
    ELSE [code |-> 200, w |-> w,
          body |-> SessionBody(w.beos[sid].total_pages, w.beos[sid].status,
                               AnnotationsDict(w, sid))]

---------------------------------------------------------------------------
(* Derived documents: create_beo_from_pages and process_all_pages.         *)

\* The calendar columns of an existing row.
ColumnsOf(beo) ==
    [event_date |-> beo.event_date, day_of_week |-> beo.day_of_week,
     week_number |-> beo.week_number, year |-> beo.year]

\* The loop of create_beo_from_pages over enumerate(data.page_indices), from
\* position new_idx on, with n images rendered.  A negative index raises
\* IndexError: below -n at images[original_idx], otherwise (after the
\* high-res file is written) at convert_from_bytes(...)[0], which renders no
\* page for first_page = last_page < 1.
RECURSIVE SplitPages(_, _, _, _, _, _)
SplitPages(w, new_sid, n, page_indices, new_idx, fault) ==
    IF new_idx >= Len(page_indices) THEN [ok |-> TRUE, w |-> w]
    ELSE
      LET original_idx == page_indices[new_idx + 1]
          withHigh == [w EXCEPT !.high_res = @ \cup {<<new_sid, new_idx>>}]
      IN  IF original_idx >= n
          THEN SplitPages(w, new_sid, n, page_indices, new_idx + 1, fault)
          ELSE IF original_idx < 0 - n \/ fault = 0 THEN [ok |-> FALSE, w |-> w]
          ELSE IF original_idx < 0 \/ fault = 1 THEN [ok |-> FALSE, w |-> withHigh]
          ELSE
            LET w1 == [withHigh EXCEPT
                         !.thumbnails = @ \cup {<<new_sid, new_idx>>},
                         !.pages = @ \cup { BEOPage(new_sid, new_idx, original_idx,
                                                    <<new_sid, new_idx>>,
                                                    <<new_sid, new_idx>>) }]
            IN  SplitPages(w1, new_sid, n, page_indices, new_idx + 1, fault - 2)

\* create_beo_from_pages(data)
create_beo_from_pages(w, parent, beo_number, page_indices, order_position, fault) ==
    IF ~Known(w, parent) THEN [code |-> 404, sid |-> NULLINT, w |-> w]
    ELSE
      LET new_sid == w.nextId
          w1 == [w EXCEPT !.nextId = new_sid + 1]
      IN  IF parent \notin DOMAIN w.originals
          THEN \* open() raises FileNotFoundError
               [code |-> 500, sid |-> new_sid, w |-> Close(w, w1)]
          ELSE
            LET parent_beo == w.beos[parent]
                new_beo == BEO(parent_beo.filename, beo_number, Len(page_indices),
                               "ready_for_annotation", parent_beo.file_type,
                               ColumnsOf(parent_beo), order_position)
                w2 == [w1 EXCEPT !.beos = (new_sid :> new_beo) @@ @]
                r == SplitPages(w2, new_sid, Cardinality(Rasterize(w.originals[parent])),
                                page_indices, 0, fault)
            IN  IF r.ok THEN [code |-> 200, sid |-> new_sid, w |-> Commit(w, r.w)]
                ELSE [code |-> 500, sid |-> new_sid, w |-> Close(w, r.w)]

\* The pages of one new BEO of process_all_pages: a high-res file, a
\* thumbnail file and a page row per page of the source, from page idx on.
RECURSIVE AllPages(_, _, _, _, _)
AllPages(w, new_sid, n, idx, fault) ==
    IF idx >= n THEN [ok |-> TRUE, w |-> w, fault |-> fault]
    ELSE
      LET withHigh == [w EXCEPT !.high_res = @ \cup {<<new_sid, idx>>}]
      IN  IF fault = 0 THEN [ok |-> FALSE, w |-> w, fault |-> 0]
          ELSE IF fault = 1 THEN [ok |-> FALSE, w |-> withHigh, fault |-> 0]
          ELSE
            LET w1 == [withHigh EXCEPT
                         !.thumbnails = @ \cup {<<new_sid, idx>>},
                         !.pages = @ \cup { BEOPage(new_sid, idx, idx, <<new_sid, idx>>,
                                                    <<new_sid, idx>>) }]
            IN  AllPages(w1, new_sid, n, idx + 1, fault - 2)

\* The loop of process_all_pages over request.session_ids.  The lookups read
\* the session's view: committed rows and the rows added so far.
RECURSIVE ProcessAll(_, _, _)
ProcessAll(w, session_ids, fault) ==
    IF session_ids = <<>> THEN [ok |-> TRUE, w |-> w]
    ELSE
      LET session_id == Head(session_ids)
      IN  IF ~Known(w, session_id) \/ session_id \notin DOMAIN w.originals
          THEN ProcessAll(w, Tail(session_ids), fault)
          ELSE
            LET upload_beo == w.beos[session_id]
                n == Cardinality(Rasterize(w.originals[session_id]))
                new_sid == w.nextId
                new_beo == BEO(upload_beo.filename, "BEO 1", n, "ready_for_annotation",
                               upload_beo.file_type, ColumnsOf(upload_beo), 0)
                w1 == [w EXCEPT !.nextId = new_sid + 1,
                                !.beos = (new_sid :> new_beo) @@ @]
                r == AllPages(w1, new_sid, n, 0, fault)
            IN  IF r.ok THEN ProcessAll(r.w, Tail(session_ids), r.fault)
                ELSE [ok |-> FALSE, w |-> r.w]

\* process_all_pages that keeps the rows added before an exception.
process_all_pages_keep_rows(w, session_ids, fault) ==
    LET r == ProcessAll(w, session_ids, fault)
    IN  [code |-> IF r.ok THEN 200 ELSE 500, sid |-> w.nextId, w |-> Commit(w, r.w)]

\* process_all_pages(request)
process_all_pages(w, session_ids, fault) ==
    LET r == ProcessAll(w, session_ids, fault)
    IN  IF r.ok THEN [code |-> 200, sid |-> w.nextId, w |-> Commit(w, r.w)]
        ELSE [code |-> 500, sid |-> w.nextId, w |-> Rollback(w, r.w)]

---------------------------------------------------------------------------
(* Calendar placement and deletion.                                        *)

\* update_beo_metadata that writes event_date and leaves the derived columns.
update_beo_metadata_date_only(w, sid, beo_number, event_date, order_position) ==
    IF ~Known(w, sid) THEN [code |-> 404, w |-> w]
    ELSE IF event_date # NoDateString /\ ~IsoParses(event_date)
    THEN [code |-> 500, w |-> w]
    ELSE [code |-> 200,
          w |-> IF event_date # NoDateString
                THEN [w EXCEPT !.beos[sid].event_date = FromIsoFormat(event_date)]
                ELSE w]

\* update_beo_metadata(metadata).  A field left out of the request is NULL
\* (beo_number), NoDateString (event_date) or <<>> (order_position).
update_beo_metadata(w, sid, beo_number, event_date, order_position) ==
    IF ~Known(w, sid) THEN [code |-> 404, w |-> w]
    ELSE IF event_date # NoDateString /\ ~IsoParses(event_date)
    THEN \* datetime.fromisoformat raises ValueError
         [code |-> 500, w |-> Close(w, w)]
    ELSE
      LET b0 == w.beos[sid]
          b1 == IF beo_number # NULL THEN [b0 EXCEPT !.beo_number = beo_number] ELSE b0
          cols == IF event_date # NoDateString
                  THEN DateColumns(event_date.y, FromIsoFormat(event_date))
                  ELSE ColumnsOf(b1)
          b2 == [b1 EXCEPT !.event_date = cols.event_date,
                           !.day_of_week = cols.day_of_week,
                           !.week_number = cols.week_number,
                           !.year = cols.year]
          b3 == IF order_position # <<>>
                THEN [b2 EXCEPT !.order_position = order_position[1]] ELSE b2
      IN  [code |-> 200, w |-> Commit(w, [w EXCEPT !.beos[sid] = b3])]

\* same_day_beos without the filter on event_date.
SameDayAnyDate(w, new_date, sid) ==
    { o \in DOMAIN w.beos : o # sid /\ w.beos[o].is_active }

\* The rows of the same_day_beos query of reorder_beo.
SameDay(w, new_date, sid) ==
    { o \in DOMAIN w.beos :
        /\ w.beos[o].event_date = new_date
        /\ o # sid
        /\ w.beos[o].is_active }

\* All sequences that list the elements of S once each.
RECURSIVE Orderings(_)
Orderings(S) ==
    IF S = {} THEN { <<>> }
    ELSE UNION { { <<x>> \o t : t \in Orderings(S \ {x}) } : x \in S }

\* .order_by(BEO.order_position).all(): the orders the database may return
\* the rows in (rows with equal order_position come in any order).
OrderByPosition(w, S) ==
    { q \in Orderings(S) :
        \A i, j \in 1..Len(q) :
            i < j => w.beos[q[i]].order_position <= w.beos[q[j]].order_position }

\* NewPosition with the comparison off by one.
NewPositionStrict(idx, order_position) ==
    IF idx > order_position THEN idx + 1 ELSE idx

\* The position reorder_beo gives the other BEO at index idx of the query.
NewPosition(idx, order_position) ==
    IF idx >= order_position THEN idx + 1 ELSE idx

\* reorder_beo(reorder); same_day_beos is the query's result.
reorder_beo(w, sid, event_date, order_position, same_day_beos) ==
    IF ~Known(w, sid) THEN [code |-> 404, w |-> w]
    ELSE IF ~IsoParses(event_date)
    THEN \* datetime.fromisoformat raises ValueError
         [code |-> 500, w |-> Close(w, w)]
    ELSE
      LET new_date == FromIsoFormat(event_date)
          cols == DateColumns(event_date.y, new_date)
          IndexOf(o) == CHOOSE i \in 1..Len(same_day_beos) : same_day_beos[i] = o
          others == { same_day_beos[i] : i \in 1..Len(same_day_beos) }
          new_beos ==
            [o \in DOMAIN w.beos |->
               IF o = sid
               THEN [w.beos[o] EXCEPT !.event_date = cols.event_date,
                                      !.day_of_week = cols.day_of_week,
                                      !.week_number = cols.week_number,
                                      !.year = cols.year,
                                      !.order_position = order_position]
               ELSE IF o \in others
               THEN [w.beos[o] EXCEPT
                       !.order_position = NewPosition(IndexOf(o) - 1, order_position)]
               ELSE w.beos[o]]
      IN  [code |-> 200, w |-> Commit(w, [w EXCEPT !.beos = new_beos])]

\* delete_beo that leaves the annotation rows behind.
delete_beo_keep_annotations(w, sid) ==
    IF ~Known(w, sid) THEN [code |-> 404, w |-> w]
    ELSE [code |-> 200,
          w |-> [w EXCEPT !.pages = { p \in @ : p.beo_id # sid },
                          !.beos = [o \in DOMAIN @ \ {sid} |-> @[o]]]]

\* delete_beo that reports success for an id it does not find.
delete_beo_silent(w, sid) ==
    IF ~Known(w, sid) THEN [code |-> 200, w |-> w]
    ELSE
      LET NotOfBeo(row) == row.beo_id # sid
          w1 == [w EXCEPT !.pages = { p \in @ : p.beo_id # sid }]
          w2 == [w1 EXCEPT !.annotations = SelectSeq(@, NotOfBeo)]
          w3 == [w2 EXCEPT !.beos = [o \in DOMAIN @ \ {sid} |-> @[o]]]
      IN  [code |-> 200, w |-> Commit(w, w3)]

\* delete_beo that also removes the original PDF of the document.
delete_beo_remove_original(w, sid) ==
    IF ~Known(w, sid) THEN [code |-> 404, w |-> w]
    ELSE
      LET NotOfBeo(row) == row.beo_id # sid
          w1 == [w EXCEPT !.pages = { p \in @ : p.beo_id # sid }]
          w2 == [w1 EXCEPT !.annotations = SelectSeq(@, NotOfBeo)]
          w3 == [w2 EXCEPT !.beos = [o \in DOMAIN @ \ {sid} |-> @[o]]]
      IN  [code |-> 200,
           w |-> Commit(w, [w3 EXCEPT !.originals = [o \in DOMAIN @ \ {sid} |-> @[o]]])]

\* delete_beo(session_id)
delete_beo(w, sid) ==
    IF ~Known(w, sid) THEN [code |-> 404, w |-> w]
    ELSE
      LET NotOfBeo(row) == row.beo_id # sid
          w1 == [w EXCEPT !.pages = { p \in @ : p.beo_id # sid }]
          w2 == [w1 EXCEPT !.annotations = SelectSeq(@, NotOfBeo)]
          w3 == [w2 EXCEPT !.beos = [o \in DOMAIN @ \ {sid} |-> @[o]]]
      IN  [code |-> 200, w |-> Commit(w, w3)]

---------------------------------------------------------------------------
(* Calendar reads: get_week_beos and get_day_beos.                         *)

\* load_file_as_base64(THUMBNAILS_DIR, ...) of the first page of document o
\* raises FileNotFoundError.
ThumbnailUnreadable(w, o) ==
    \E p \in PagesOf(w, o) :
        p.page_index = 0 /\ p.thumbnail_path # NOPATH /\ p.thumbnail_path \notin w.thumbnails

\* The "thumbnail" of a beo_data: the file of the first page, or none.
FirstThumbnail(w, o) ==
    IF \E p \in PagesOf(w, o) : p.page_index = 0
    THEN (CHOOSE p \in PagesOf(w, o) : p.page_index = 0).thumbnail_path
    ELSE NOPATH

\* beo_data of get_week_beos and get_day_beos (the columns copied as they
\* are left out).
BeoData(w, o) ==
    [session_id |-> o, event_date |-> w.beos[o].event_date,
     order_position |-> w.beos[o].order_position,
     annotation_count |-> Cardinality({ i \in DOMAIN w.annotations :
                                          w.annotations[i].beo_id = o }),
     thumbnail |-> FirstThumbnail(w, o)]

\* week_start of get_week_beos, a datetime at midnight.
WeekStart(year, week_number) ==
    DateTime(year, 1, 4, 0) - 24 * Weekday(DateTime(year, 1, 4, 0))
      + 24 * 7 * (week_number - 1)

\* The rows of the query of get_week_beos.
InWeek(w, week_start, week_end) ==
    { o \in DOMAIN w.beos :
        /\ w.beos[o].event_date # NULLINT
        /\ w.beos[o].event_date >= week_start
        /\ w.beos[o].event_date <= week_end
        /\ w.beos[o].is_active }

\* .order_by(BEO.event_date, BEO.order_position).all(): the orders the
\* database may return the rows in.
OrderByDatePosition(w, S) ==
    { q \in Orderings(S) :
        \A i, j \in 1..Len(q) :
            i < j => \/ w.beos[q[i]].event_date < w.beos[q[j]].event_date
                     \/ /\ w.beos[q[i]].event_date = w.beos[q[j]].event_date
                        /\ w.beos[q[i]].order_position <= w.beos[q[j]].order_position }

\* The "days" of a week without documents.
NoDays == [d \in { DayNames[i] : i \in 1..7 } |-> <<>>]

\* get_week_beos(year, week_number); rows is the query's result.
get_week_beos(w, year, week_number, rows) ==
    IF ~ValidYmd(year, 1, 4)
    THEN \* datetime(year, 1, 4) raises ValueError
         [code |-> 500, w |-> w, days |-> NoDays]
    ELSE IF \E i \in 1..Len(rows) : /\ w.beos[rows[i]].day_of_week # NULL
                                     /\ ThumbnailUnreadable(w, rows[i])
    THEN \* load_file_as_base64 raises FileNotFoundError
         [code |-> 500, w |-> w, days |-> NoDays]
    ELSE
      LET Bucket(d) ==
            LET OnDay(o) == w.beos[o].day_of_week = d
                of_day == SelectSeq(rows, OnDay)
            IN  [i \in 1..Len(of_day) |-> BeoData(w, of_day[i])]
      IN  [code |-> 200, w |-> w,
           days |-> [d \in { DayNames[i] : i \in 1..7 } |-> Bucket(d)]]

\* The rows of the query of get_day_beos: from midnight of the day up to,
\* not including, its last microsecond.
InDay(w, date) ==
    { o \in DOMAIN w.beos :
        /\ w.beos[o].event_date # NULLINT
        /\ ToOrdinal(w.beos[o].event_date) = ToOrdinal(FromIsoFormat(date))
        /\ w.beos[o].is_active }

\* get_day_beos(date); rows is the query's result.
get_day_beos(w, date, rows) ==
    IF ~IsoParses(date) THEN [code |-> 400, w |-> w, beos |-> <<>>]
    ELSE IF \E i \in 1..Len(rows) : ThumbnailUnreadable(w, rows[i])
    THEN \* load_file_as_base64 raises FileNotFoundError
         [code |-> 500, w |-> w, beos |-> <<>>]
    ELSE [code |-> 200, w |-> w, beos |-> [i \in 1..Len(rows) |-> BeoData(w, rows[i])]]

\* The file export_session loads for a page row: the high-res image if the
\* row has one, else the thumbnail.
ExportImage(p) ==
    IF p.high_res_path # NOPATH THEN [directory |-> "high_res", filename |-> p.high_res_path]
    ELSE [directory |-> "thumbnails", filename |-> p.thumbnail_path]

\* load_file_as_base64(directory, filename) raises (FileNotFoundError, or
\* TypeError for a filename of None).
Unreadable(w, image) ==
    \/ image.filename = NOPATH
    \/ image.directory = "high_res" /\ image.filename \notin w.high_res
    \/ image.directory = "thumbnails" /\ image.filename \notin w.thumbnails

\* .order_by(BEOPage.page_index).all(): the orders the database may return
\* the page rows in.
OrderByPageIndex(S) ==
    { q \in Orderings(S) :
        \A i, j \in 1..Len(q) : i < j => q[i].page_index <= q[j].page_index }

\* export_session(session_id); rows is the result of the pages query.
export_session(w, sid, rows) ==
    IF ~Known(w, sid) THEN [code |-> 404, w |-> w, pages |-> <<>>]
    ELSE IF \E i \in 1..Len(rows) : Unreadable(w, ExportImage(rows[i]))
    THEN \* load_file_as_base64 raises
         [code |-> 500, w |-> w, pages |-> <<>>]
    ELSE
      LET annotations_dict == AnnotationsDict(w, sid)
      IN  [code |-> 200, w |-> w,
           pages |-> [i \in 1..Len(rows) |->
                        [page_number |-> rows[i].page_index + 1,
                         image |-> ExportImage(rows[i]),
                         annotations |->
                           IF rows[i].page_index \in DOMAIN annotations_dict
                           THEN annotations_dict[rows[i].page_index] ELSE "{}"]]]

---------------------------------------------------------------------------
(* Requests.                                                               *)

\* Sequences over S of length lo..hi.
SeqsOf(S, lo, hi) == UNION { [1..n -> S] : n \in lo..hi }

\* Session ids a client may send: those generated so far and unknown ones.
SessionIds == 1..MaxIds

\* selected_pages / page_indices lists sent by clients (any integers).
PageLists == SeqsOf((-1)..MaxPdfPages, 0, MaxPdfPages)

\* An uploaded file: its name, its bytes and the file_type form field.
Upload(filename, pdf, file_type) ==
    [filename |-> filename, pdf |-> pdf, file_type |-> file_type]

Uploads ==
    { Upload(filename, pdf, file_type) :
        filename \in Filenames, pdf \in Pdfs, file_type \in FileTypes }

\* A file of an upload_multiple_pdfs request with its file_data entry.
BatchFile(filename, pdf, file_type, date) ==
    [filename |-> filename, pdf |-> pdf, file_type |-> file_type, date |-> date]

BatchFiles ==
    { BatchFile(filename, pdf, file_type, date) :
        filename \in Filenames, pdf \in Pdfs, file_type \in FileTypes,
        date \in DateStrings \cup {NoDateString} }

\* No request is in flight: the handlers below run one at a time.
Idle == reqs = <<>>

\* Each request action draws its inputs from the sets it is given.

UploadPdfAt(uploads, nows, faults) ==
    \E u \in uploads, now \in nows, fault \in faults :
      /\ Idle /\ steps < MaxSteps
      /\ nextId <= MaxIds
      /\ LET r == upload_pdf(World, u.filename, u.pdf, u.file_type, now, fault)
         IN  Serve(r.w, [Response("upload_pdf", r.code, r.sid, u.filename)
                           EXCEPT !.now = now])
      /\ UNCHANGED reqs

UploadPdf(uploads, faults) == UploadPdfAt(uploads, Nows, faults)

UploadMultiplePdfs(batches, faults) ==
    \E files \in batches, fault \in faults :
      /\ Idle /\ steps < MaxSteps
      /\ nextId + Len(files) - 1 <= MaxIds
      /\ LET r == upload_multiple_pdfs(World, files, fault)
         IN  Serve(r.w, [Response("upload_multiple_pdfs", r.code, r.sid, NULLINT)
                           EXCEPT !.dates = { files[i].date : i \in DOMAIN files }
                                              \ {NoDateString}])
      /\ UNCHANGED reqs

ProcessAllPages(idLists, faults) ==
    \E session_ids \in idLists, fault \in faults :
      /\ Idle /\ steps < MaxSteps
      /\ nextId + Len(session_ids) - 1 <= MaxIds
      /\ LET r == process_all_pages(World, session_ids, fault)
         IN  Serve(r.w, Response("process_all_pages", r.code, r.sid, session_ids))
      /\ UNCHANGED reqs

SelectPages(pageLists) ==
    \E sid \in SessionIds, selected \in pageLists :
      /\ Idle /\ steps < MaxSteps
      /\ LET r == select_pages(World, sid, selected)
         IN  Serve(r.w, Response("select_pages", r.code, sid, selected))
      /\ UNCHANGED reqs

ProcessSelectedPages(pageLists, faults) ==
    \E sid \in SessionIds, selected \in pageLists, fault \in faults :
      /\ Idle /\ steps < MaxSteps
      /\ LET r == process_selected_pages(World, sid, selected, fault)
         IN  Serve(r.w, Response("process_selected_pages", r.code, sid,
                                 [selected_pages |-> selected,
                                  high_res_pages |-> r.high_res_pages]))
      /\ UNCHANGED reqs

\* The rows .first() may return for (sid, page_index); 0 when there is none.
FirstRows(w, sid, page_index) ==
    IF AnnotationRows(w, sid, page_index) = {} THEN {0}
    ELSE AnnotationRows(w, sid, page_index)

SaveAnnotation(indices, payloads) ==
    \E sid \in SessionIds, page_index \in indices, payload \in payloads :
      \E pick \in FirstRows(World, sid, page_index) :
        /\ Idle /\ steps < MaxSteps
        /\ LET r == save_annotation(World, sid, page_index, payload, pick)
           IN  Serve(r.w, Response("save_annotation", r.code, sid, <<page_index, payload>>))
        /\ UNCHANGED reqs

CreateBeoFromPages(pageLists, positions, faults) ==
    \E parent \in SessionIds, beo_number \in BeoNumbers, page_indices \in pageLists,
       order_position \in positions, fault \in faults :
      /\ Idle /\ steps < MaxSteps
      /\ nextId <= MaxIds
      /\ LET r == create_beo_from_pages(World, parent, beo_number, page_indices,
                                        order_position, fault)
         IN  Serve(r.w, Response("create_beo_from_pages", r.code, r.sid,
                                 [parent_session_id |-> parent, beo_number |-> beo_number,
                                  page_indices |-> page_indices,
                                  order_position |-> order_position]))
      /\ UNCHANGED reqs

UpdateBeoMetadata(numbers, dates, positions) ==
    \E sid \in SessionIds, beo_number \in numbers, event_date \in dates,
       order_position \in positions :
      /\ Idle /\ steps < MaxSteps
      /\ LET r == update_beo_metadata(World, sid, beo_number, event_date, order_position)
         IN  Serve(r.w, [Response("update_beo_metadata", r.code, sid, NULLINT)
                           EXCEPT !.dates = {event_date} \ {NoDateString}])
      /\ UNCHANGED reqs

ReorderBeo(dates, positions) ==
    \E sid \in SessionIds, event_date \in dates, order_position \in positions :
      \E same_day_beos \in
           IF IsoParses(event_date)
           THEN OrderByPosition(World, SameDay(World, FromIsoFormat(event_date), sid))
           ELSE { <<>> } :
        /\ Idle /\ steps < MaxSteps
        /\ LET r == reorder_beo(World, sid, event_date, order_position, same_day_beos)
           IN  Serve(r.w, [Response("reorder_beo", r.code, sid,
                                    [i \in 1..Len(same_day_beos) |->
                                       beos[same_day_beos[i]].order_position])
                             EXCEPT !.dates = {event_date}])
        /\ UNCHANGED reqs

DeleteBeo ==
    \E sid \in SessionIds :
      /\ Idle /\ steps < MaxSteps
      /\ LET r == delete_beo(World, sid)
         IN  Serve(r.w, Response("delete_beo", r.code, sid, NULLINT))
      /\ UNCHANGED reqs

GetSession ==
    \E sid \in SessionIds :
      /\ Idle /\ steps < MaxSteps
      /\ LET r == get_session(World, sid)
         IN  Serve(r.w, Response("get_session", r.code, sid, r.body))
      /\ UNCHANGED reqs

GetWeekBeos(years, weeks) ==
    \E year \in years, week_number \in weeks :
      \E rows \in
           IF ValidYmd(year, 1, 4)
           THEN OrderByDatePosition(World, InWeek(World, WeekStart(year, week_number),
                                                  WeekStart(year, week_number) + 24 * 6))
           ELSE { <<>> } :
        /\ Idle /\ steps < MaxSteps
        /\ LET r == get_week_beos(World, year, week_number, rows)
           IN  Serve(r.w, Response("get_week_beos", r.code, NULLINT,
                                   [year |-> year, week_number |-> week_number,
                                    days |-> r.days]))
        /\ UNCHANGED reqs

GetDayBeos(dates) ==
    \E date \in dates :
      \E rows \in IF IsoParses(date) THEN OrderByPosition(World, InDay(World, date))
                   ELSE { <<>> } :
        /\ Idle /\ steps < MaxSteps
        /\ LET r == get_day_beos(World, date, rows)
           IN  Serve(r.w, [Response("get_day_beos", r.code, NULLINT,
                                    [date |-> date, beos |-> r.beos])
                             EXCEPT !.dates = {date}])
        /\ UNCHANGED reqs

ExportSession ==
    \E sid \in SessionIds :
      \E rows \in OrderByPageIndex(PagesOf(World, sid)) :
        /\ Idle /\ steps < MaxSteps
        /\ LET r == export_session(World, sid, rows)
           IN  Serve(r.w, Response("export_session", r.code, sid, r.pages))
        /\ UNCHANGED reqs

\* The image files a page row names that are not in their directory.
MissingImages ==
    { <<"thumbnails", p.thumbnail_path>> :
        p \in { r \in pages : r.thumbnail_path # NOPATH /\ r.thumbnail_path \notin thumbnails } }
    \cup
    { <<"high_res", p.high_res_path>> :
        p \in { r \in pages : r.high_res_path # NOPATH /\ r.high_res_path \notin high_res } }

\* A file of THUMBNAILS_DIR or HIGH_RES_DIR is removed from the disk by
\* something other than the application, which never deletes a file.
ArtifactLost ==
    /\ Idle
    /\ Cardinality(MissingImages) < MaxLost
    /\ \/ \E f \in thumbnails : thumbnails' = thumbnails \ {f} /\ UNCHANGED high_res
       \/ \E f \in high_res : high_res' = high_res \ {f} /\ UNCHANGED thumbnails
    /\ UNCHANGED <<beos, pages, annotations, originals, nextId, steps, last, reqs>>
    /\ UNCHANGED mainvars

\* order_position as an optional field of a metadata update.
OptionalPositions == {<<>>} \cup { <<p>> : p \in OrderPositions }

Next ==
    \/ UploadPdf(Uploads, Faults)
    \/ UploadMultiplePdfs(SeqsOf(BatchFiles, 1, 2), Faults)
    \/ ProcessAllPages(SeqsOf(SessionIds, 1, 2), Faults)
    \/ SelectPages(PageLists)
    \/ ProcessSelectedPages(PageLists, Faults)
    \/ SaveAnnotation(AnnotationIndices, Payloads)
    \/ CreateBeoFromPages(PageLists, OrderPositions, Faults)
    \/ UpdateBeoMetadata(BeoNumbers \cup {NULL}, DateStrings \cup {NoDateString},
                         OptionalPositions)
    \/ ReorderBeo(DateStrings, OrderPositions)
    \/ DeleteBeo
    \/ GetSession
    \/ GetWeekBeos({2025}, {44})
    \/ GetDayBeos(DateStrings)
    \/ ExportSession

Spec == Init /\ [][Next]_vars

---------------------------------------------------------------------------
(* Calendar: the requests that write event_date or order_position, with    *)
(* one-page PDFs and no write failures.                                    *)

CalendarUploads ==
    { Upload(FileName(10, 28, "Tuesday", ".pdf"), 1, "daily"),
      Upload(FileName(-1, -1, "menu", ".pdf"), 1, "daily") }

CalendarBatches ==
    SeqsOf({ BatchFile(FileName(-1, -1, "menu", ".pdf"), 1, "daily",
                       IsoString(2025, 10, 28, 0)) }, 1, 2)

\* The metadata updates of the calendar view: a date, a position, or both.
CalendarDates == { IsoString(2025, 10, 28, 0), IsoString(2025, 13, 1, 0), NoDateString }

CalendarPositions == { <<>>, <<0>>, <<1>> }

NextCalendar ==
    \/ UploadPdf(CalendarUploads, {NoFault})
    \/ UploadMultiplePdfs(CalendarBatches, {NoFault})
    \/ ProcessAllPages(SeqsOf(SessionIds, 1, 1), {NoFault})
    \/ CreateBeoFromPages({<<0>>}, 0..1, {NoFault})
    \/ UpdateBeoMetadata({NULL}, CalendarDates, CalendarPositions)
    \/ ReorderBeo(DateStrings, OrderPositions)
    \/ DeleteBeo

SpecCalendar == Init /\ [][NextCalendar]_vars

---------------------------------------------------------------------------
(* Pages: the requests that create, change or delete page rows, with write *)
(* failures and malformed PDFs.                                            *)

Menu == FileName(-1, -1, "menu", ".pdf")

PagesUploads ==
    { Upload(Menu, pdf, "daily") : pdf \in Pdfs }
    \cup { Upload(FileName(-1, -1, "notes", ".txt"), 1, "daily") }

PagesBatches ==
    SeqsOf({ BatchFile(Menu, pdf, "daily", NoDateString) : pdf \in {1, Malformed} }, 1, 2)

\* Page lists of up to two entries: the first page, the last page a PDF can
\* have, and indices no PDF has.
ShortPageLists == SeqsOf({-1, 0, MaxPdfPages - 1, MaxPdfPages}, 0, 2)

\* Write failures of the requests that derive pages: at the first write, at
\* the second, or none.
PagesFaults == {0, 1, NoFault}

NextPages ==
    \/ UploadPdf(PagesUploads, Faults)
    \/ UploadMultiplePdfs(PagesBatches, Faults)
    \/ ProcessAllPages(SeqsOf(SessionIds, 1, 1), PagesFaults)
    \/ ProcessSelectedPages(ShortPageLists, PagesFaults)
    \/ CreateBeoFromPages(ShortPageLists, {0}, PagesFaults)
    \/ DeleteBeo

SpecPages == Init /\ [][NextPages]_vars

---------------------------------------------------------------------------
(* Ingest: the two upload handlers with every kind of file, write failures *)
(* at every thumbnail, and deletion to make room for further uploads.      *)

IngestNames == { Menu, FileName(-1, -1, "notes", ".txt") }

IngestUploads == { Upload(filename, pdf, "daily") : filename \in IngestNames, pdf \in Pdfs }

IngestBatches ==
    SeqsOf({ BatchFile(filename, pdf, "daily", NoDateString) :
               filename \in IngestNames, pdf \in Pdfs }, 1, 2)

NextIngest ==
    \/ UploadPdf(IngestUploads, Faults)
    \/ UploadMultiplePdfs(IngestBatches, Faults)
    \/ DeleteBeo

SpecIngest == Init /\ [][NextIngest]_vars

---------------------------------------------------------------------------
(* Dates: every request that writes event_date, with filenames that parse  *)
(* to this year, to next year and to no date, and date strings at the ends *)
(* of a calendar year, where the ISO week belongs to the neighbouring year.*)

DatesUploads ==
    { Upload(FileName(10, 28, "Tuesday", ".pdf"), 1, "daily"),
      Upload(FileName(1, 5, "Monday", ".pdf"), 1, "daily"),
      Upload(FileName(2, 30, "Friday", ".pdf"), 1, "daily"),
      Upload(Menu, 1, "daily") }

DatesBatches ==
    SeqsOf({ BatchFile(Menu, 1, "daily", date) :
               date \in { IsoString(2025, 12, 29, 0), IsoString(2025, 13, 1, 0),
                          NoDateString } }, 1, 1)

DatesStrings ==
    { IsoString(2027, 1, 1, 0), IsoString(2025, 10, 28, 23), IsoString(2025, 2, 30, 0) }

NextDates ==
    \/ UploadPdf(DatesUploads, {NoFault})
    \/ UploadMultiplePdfs(DatesBatches, {NoFault})
    \/ ProcessAllPages(SeqsOf(SessionIds, 1, 1), {NoFault})
    \/ CreateBeoFromPages({<<0>>}, {0}, {NoFault})
    \/ UpdateBeoMetadata({NULL}, DatesStrings \cup {NoDateString}, {<<>>, <<1>>})
    \/ ReorderBeo(DatesStrings, {0})

SpecDates == Init /\ [][NextDates]_vars

---------------------------------------------------------------------------
(* Filenames: upload_pdf of names with and without a date, at times that   *)
(* put the date 180 and 181 days back, and in years where the date falls   *)
(* on another weekday or does not exist.                                   *)

FilenameUploads ==
    { Upload(filename, 1, "daily") :
        filename \in { FileName(10, 28, "Tuesday", ".pdf"), FileName(4, 22, "Tuesday", ".pdf"),
                       FileName(4, 23, "Wednesday", ".pdf"), FileName(2, 29, "Thursday", ".pdf"),
                       FileName(2, 30, "Friday", ".pdf"), FileName(13, 1, "Monday", ".pdf"),
                       Menu } }

FilenameNows ==
    { IsoString(2025, 10, 20, 9), IsoString(2026, 11, 2, 16), IsoString(2028, 12, 31, 23) }

NextFilenames ==
    \/ UploadPdfAt(FilenameUploads, FilenameNows, {NoFault})
    \/ DeleteBeo

SpecFilenames == Init /\ [][NextFilenames]_vars

---------------------------------------------------------------------------
(* Week view: documents moved to the first and the last day of ISO week 44 *)
(* of 2025, at midnight and later in the day, and to the Monday after it.  *)

WeekDates ==
    { IsoString(2025, 10, 27, 0), IsoString(2025, 11, 2, 0), IsoString(2025, 11, 2, 10),
      IsoString(2025, 11, 3, 0) }

NextWeek ==
    \/ UploadPdf({Upload(Menu, 1, "daily")}, {NoFault})
    \/ ReorderBeo(WeekDates, 0..1)
    \/ GetWeekBeos({2025}, {44, 45})

SpecWeek == Init /\ [][NextWeek]_vars

---------------------------------------------------------------------------
(* Status: the requests that write the status of an existing document.     *)

StatusUploads == { Upload(Menu, pdf, "daily") : pdf \in 1..MaxPdfPages }

\* Selections of at most one index: a page, an index no PDF has, a negative
\* one.
StatusPageLists == SeqsOf({-1, 0, MaxPdfPages}, 0, 1)

NextStatus ==
    \/ UploadPdf(StatusUploads, {NoFault})
    \/ SelectPages(StatusPageLists)
    \/ ProcessSelectedPages(SeqsOf(0..MaxPdfPages, 0, 1), Faults)
    \/ SaveAnnotation({0}, Payloads)

SpecStatus == Init /\ [][NextStatus]_vars

---------------------------------------------------------------------------
(* Promotion: process_selected_pages on uploaded documents and on the      *)
(* documents process_all_pages derives from them, which have no original.  *)

NextPromote ==
    \/ UploadPdf(StatusUploads, {NoFault})
    \/ ProcessAllPages(SeqsOf(SessionIds, 1, 1), {NoFault})
    \/ ProcessSelectedPages(ShortPageLists, PagesFaults)

SpecPromote == Init /\ [][NextPromote]_vars

---------------------------------------------------------------------------
(* Failures: the three handlers that leave their rollback to get_db, with  *)
(* write failures, indices that raise, and a date that does not parse.     *)

AtomicDates == { IsoString(2025, 10, 28, 0), IsoString(2025, 13, 1, 0) }

\* One or two pages of a PDF, or a page and a negative index.
AtomicPageLists == SeqsOf({0, MaxPdfPages - 1}, 1, 2) \cup { <<0, -1>> }

NextAtomic ==
    \/ UploadPdf(StatusUploads, {NoFault})
    \/ ProcessSelectedPages(AtomicPageLists, PagesFaults)
    \/ CreateBeoFromPages(AtomicPageLists, {0}, PagesFaults)
    \/ ReorderBeo(AtomicDates, {0})

SpecAtomic == Init /\ [][NextAtomic]_vars

---------------------------------------------------------------------------
(* Lookups: every handler that takes a document id, with ids that are in   *)
(* the registry and ids that are not.                                      *)

\* All page indices of a PDF of 1..MaxPdfPages pages.
AllPageLists == { [i \in 1..n |-> i - 1] : n \in 1..MaxPdfPages }

NextLookup ==
    \/ UploadPdf(StatusUploads, {NoFault})
    \/ SelectPages({<<0>>})
    \/ ProcessSelectedPages(AllPageLists, {NoFault})
    \/ CreateBeoFromPages({<<0>>}, {0}, {NoFault})
    \/ SaveAnnotation({0}, {"a"})
    \/ ReorderBeo({IsoString(2025, 10, 28, 0)}, {0})
    \/ DeleteBeo
    \/ GetSession

SpecLookup == Init /\ [][NextLookup]_vars

---------------------------------------------------------------------------
(* Originals: every request that follows an upload, on documents that have *)
(* an original PDF and on the documents process_all_pages derives, which   *)
(* have thumbnails and high-res images but no original.                    *)

NextOriginals ==
    \/ UploadPdf(StatusUploads, {0, NoFault})
    \/ SelectPages({<<0>>})
    \/ ProcessSelectedPages({<<0>>}, {NoFault})
    \/ CreateBeoFromPages({<<0>>}, {0}, {NoFault})
    \/ ProcessAllPages(SeqsOf(SessionIds, 1, 1), {NoFault})
    \/ SaveAnnotation({0}, {"a"})
    \/ ReorderBeo({IsoString(2025, 10, 28, 0)}, {0})
    \/ DeleteBeo

SpecOriginals == Init /\ [][NextOriginals]_vars

---------------------------------------------------------------------------
(* Date strings: the four requests that take a date string, with a date    *)
(* that parses and two that do not (a day and a month that do not exist).  *)

DateInputs ==
    { IsoString(2025, 10, 28, 0), IsoString(2025, 2, 30, 0), IsoString(2025, 13, 1, 0) }

DateInputBatches ==
    SeqsOf({ BatchFile(Menu, 1, "daily", date) : date \in DateInputs }, 1, 2)

NextDateInputs ==
    \/ UploadPdf({Upload(Menu, 1, "daily")}, {NoFault})
    \/ UploadMultiplePdfs(DateInputBatches, {NoFault})
    \/ UpdateBeoMetadata({NULL}, DateInputs, {<<>>})
    \/ ReorderBeo(DateInputs, {0})
    \/ GetDayBeos(DateInputs)

SpecDateInputs == Init /\ [][NextDateInputs]_vars

---------------------------------------------------------------------------
(* Missing artifacts: the three reads that load image files, on documents  *)
(* placed on the calendar, after a file has gone from the disk.            *)

NextArtifacts ==
    \/ UploadPdf({Upload(FileName(10, 28, "Tuesday", ".pdf"), 1, "daily")}, {NoFault})
    \/ ProcessSelectedPages({<<0>>}, {NoFault})
    \/ ArtifactLost
    \/ GetWeekBeos({2025}, {44})
    \/ GetDayBeos({IsoString(2025, 10, 28, 0)})
    \/ ExportSession

SpecArtifacts == Init /\ [][NextArtifacts]_vars

---------------------------------------------------------------------------
(* Batches: process_all_pages over lists of one or two ids (known, unknown,*)
(* deleted, repeated, derived), with a write that fails in the first or in *)
(* the second document.                                                    *)

BatchUploads ==
    { Upload(filename, pdf, "daily") :
        filename \in {FileName(10, 28, "Tuesday", ".pdf"), Menu}, pdf \in 1..MaxPdfPages }

\* Image writes that succeed before one fails: none, the high-res image of a
\* page, both images of a page, and so on for the next page.
BatchFaults == (0..3) \cup {NoFault}

NextBatch ==
    \/ UploadPdf(BatchUploads, {NoFault})
    \/ SelectPages({<<0>>})
    \/ ProcessAllPages(SeqsOf(SessionIds, 1, 2), BatchFaults)
    \/ DeleteBeo

SpecBatch == Init /\ [][NextBatch]_vars

---------------------------------------------------------------------------
(* Files: the requests that write image files and page rows, each with a   *)
(* write that fails, and deletion.                                         *)

NextFiles ==
    \/ UploadPdf(StatusUploads, {1, NoFault})
    \/ ProcessSelectedPages(AtomicPageLists, PagesFaults)
    \/ CreateBeoFromPages(AtomicPageLists, {0}, PagesFaults)
    \/ ProcessAllPages(SeqsOf(SessionIds, 1, 1), PagesFaults)
    \/ DeleteBeo

SpecFiles == Init /\ [][NextFiles]_vars

---------------------------------------------------------------------------
(* Year ends: documents dated in the middle of a year, on 2025-12-29 (ISO  *)
(* week 1 of 2026) and on 2027-01-01 (ISO week 53 of 2026), by file name   *)
(* and by request, and the week view of their stored year and week_number. *)

YearEndUploads ==
    { Upload(FileName(12, 29, "Monday", ".pdf"), 1, "daily"), Upload(Menu, 1, "daily") }

YearEndDates ==
    { IsoString(2025, 10, 28, 0), IsoString(2025, 12, 29, 0), IsoString(2027, 1, 1, 0) }

NextYearEnds ==
    \/ UploadPdf(YearEndUploads, {NoFault})
    \/ UpdateBeoMetadata({NULL}, YearEndDates, {<<>>})
    \/ ReorderBeo(YearEndDates, {0})
    \/ GetWeekBeos({2025, 2027}, {1, 44, 53})

SpecYearEnds == Init /\ [][NextYearEnds]_vars

---------------------------------------------------------------------------
(* Annotations: the requests that write or delete annotation rows.         *)

AnnotationBatches ==
    SeqsOf({ BatchFile(Menu, pdf, "daily", NoDateString) : pdf \in 1..MaxPdfPages }, 2, 2)

NextAnnotations ==
    \/ UploadPdf(StatusUploads, {NoFault})
    \/ UploadMultiplePdfs(AnnotationBatches, {NoFault})
    \/ SaveAnnotation(AnnotationIndices, Payloads)
    \/ DeleteBeo

SpecAnnotations == Init /\ [][NextAnnotations]_vars

---------------------------------------------------------------------------
(* Concurrent requests.  Each worker process runs a handler in its own     *)
(* database session (database.py: SessionLocal, the engine's default READ  *)
(* COMMITTED isolation): the handler's queries read the committed rows,    *)
(* and db.commit() flushes an UPDATE of the columns the handler changed on *)
(* the rows it loaded, and an INSERT of the rows it added.                 *)

\* A request in flight: what it was sent, the rows its queries read (seen),
\* and the row .first() / the rows .all() returned.
Request(op, sid, event_date, order_position, same_day_beos, page_index, payload, existing, seen) ==
    [op |-> op, pc |-> "read", sid |-> sid, event_date |-> event_date,
     order_position |-> order_position, same_day_beos |-> same_day_beos,
     page_index |-> page_index, payload |-> payload, existing |-> existing,
     seen |-> seen]

\* The flush of a session that loaded row seen and holds it as computed:
\* the columns it changed are written over the committed row.
FlushRow(committed, seen, computed) ==
    [f \in DOMAIN committed |->
       IF computed[f] # seen[f] THEN computed[f] ELSE committed[f]]

\* The requests that have read and not yet committed.
InFlight == { i \in DOMAIN reqs : reqs[i].pc = "read" }

\* reorder_beo up to and including its same_day_beos query.
BeginReorder(dates, positions) ==
    \E sid \in DOMAIN beos, event_date \in dates, order_position \in positions :
      /\ IsoParses(event_date)
      /\ \E same_day_beos \in
              OrderByPosition(World, SameDay(World, FromIsoFormat(event_date), sid)) :
           /\ Len(reqs) < MaxInFlight
           /\ steps + Cardinality(InFlight) < MaxSteps
           /\ reqs' = Append(reqs, Request("reorder_beo", sid, event_date, order_position,
                                           same_day_beos, NULLINT, NULL, NULLINT, World))
      /\ UNCHANGED <<beos, pages, annotations, originals, thumbnails, high_res, nextId,
                     steps, last>>
      /\ UNCHANGED mainvars

\* The db.commit() of reorder_beo.
CommitReorder ==
    \E i \in DOMAIN reqs :
      /\ reqs[i].op = "reorder_beo" /\ reqs[i].pc = "read"
      /\ LET r == reqs[i]
             computed == reorder_beo(r.seen, r.sid, r.event_date, r.order_position,
                                     r.same_day_beos).w
             loaded == {r.sid} \cup { r.same_day_beos[j] : j \in 1..Len(r.same_day_beos) }
         IN  IF loaded \subseteq DOMAIN beos
             THEN Serve([World EXCEPT !.beos =
                           [o \in DOMAIN beos |->
                              IF o \in loaded
                              THEN FlushRow(beos[o], r.seen.beos[o], computed.beos[o])
                              ELSE beos[o]]],
                        Response("reorder_beo", 200, r.sid, NULLINT))
             ELSE \* an UPDATE matches no row: StaleDataError, nothing is committed
                  Serve(World, Response("reorder_beo", 500, r.sid, NULLINT))
      /\ reqs' = [reqs EXCEPT ![i].pc = "done"]

\* save_annotation up to and including its query for an existing row.
BeginSave(indices, payloads) ==
    \E sid \in DOMAIN beos, page_index \in indices, payload \in payloads :
      \E pick \in FirstRows(World, sid, page_index) :
        /\ Len(reqs) < MaxInFlight
        /\ steps + Cardinality(InFlight) < MaxSteps
        /\ reqs' = Append(reqs, Request("save_annotation", sid, NoDateString, NULLINT, <<>>,
                                        page_index, payload, pick, World))
        /\ UNCHANGED <<beos, pages, annotations, originals, thumbnails, high_res, nextId,
                       steps, last>>
        /\ UNCHANGED mainvars

\* The db.commit() of save_annotation.
CommitSave ==
    \E i \in DOMAIN reqs :
      /\ reqs[i].op = "save_annotation" /\ reqs[i].pc = "read"
      /\ LET r == reqs[i]
             computed == save_annotation(r.seen, r.sid, r.page_index, r.payload,
                                         r.existing).w
             added == SubSeq(computed.annotations, Len(r.seen.annotations) + 1,
                             Len(computed.annotations))
         IN  IF r.sid \in DOMAIN beos
             THEN Serve([World EXCEPT
                           !.beos[r.sid] = FlushRow(@, r.seen.beos[r.sid],
                                                    computed.beos[r.sid]),
                           !.annotations =
                             [j \in DOMAIN @ |->
                                IF j = r.existing
                                THEN FlushRow(@[j], r.seen.annotations[j],
                                              computed.annotations[j])
                                ELSE @[j]] \o added],
                        Response("save_annotation", 200, r.sid, <<r.page_index, r.payload>>))
             ELSE Serve(World, Response("save_annotation", 500, r.sid,
                                        <<r.page_index, r.payload>>))
      /\ reqs' = [reqs EXCEPT ![i].pc = "done"]

\* One or two one-page PDFs with no date.
ConcurrentBatches == SeqsOf({ BatchFile(Menu, 1, "daily", NoDateString) }, 1, 2)

NextConcurrent ==
    \/ UploadMultiplePdfs(ConcurrentBatches, {NoFault})
    \/ BeginReorder(DateStrings, 0..1)
    \/ CommitReorder
    \/ BeginSave({0}, Payloads)
    \/ CommitSave

SpecConcurrent == Init /\ [][NextConcurrent]_vars

---------------------------------------------------------------------------
(* The in-memory variant (main.py): sessions in a dict, WebSocket          *)
(* connections per session id, and save_annotation broadcasting to them.   *)
(* All coroutines run on one event loop: a coroutine runs until it is      *)
(* suspended in an await, and other coroutines run while it is suspended.  *)

\* The state of the database variant, which main.py does not touch.
dbvars == <<beos, pages, annotations, originals, thumbnails, high_res, nextId, steps,
            last, reqs>>

\* Session ids sent by clients of main.py: those of uploaded sessions and one
\* that no upload returned.
MainSessionIds == 1..(MaxSessions + 1)

\* upload_pdf of main.py: the session dict of a PDF of pdf pages.
MainSession(filename, pdf) ==
    [filename |-> filename, total_pages |-> pdf,
     selected_pages |-> [i \in 1..pdf |-> i - 1], annotations |-> <<>>]

\* upload_pdf of main.py
MainUploadPdf ==
    \E filename \in IngestNames, pdf \in Pdfs :
      /\ Cardinality(DOMAIN sessions) < MaxSessions
      /\ sessions' = IF filename.ext # ".pdf" \/ pdf = Malformed
                      THEN sessions
                      ELSE ((Cardinality(DOMAIN sessions) + 1) :> MainSession(filename, pdf))
                           @@ sessions
      /\ UNCHANGED <<active_connections, lists, sockets, tasks, sends>>
      /\ UNCHANGED dbvars

\* A WebSocket: the session id of its path, whether the client is still
\* there, and where its websocket_endpoint task is; the text it received
\* last (NULL before), the list object its for loop iterates and the index
\* of the element whose send_text it is suspended in, and every send_text
\* the loop has called.  listeners remembers the connections that were
\* registered when the text was received.
WebSocket(session_id) ==
    [session_id |-> session_id, client |-> "open", pc |-> "receive", data |-> NULL,
     list |-> 0, i |-> 0, forwarded |-> <<>>, listeners |-> <<>>]

\* websocket_endpoint up to its first receive_text: accept and register;
\* n bounds the connections of the run.
ConnectUpTo(n) ==
    \E session_id \in MainSessionIds :
      /\ Len(sockets) < n
      /\ LET ws == Len(sockets) + 1
             fresh == Len(lists) + 1
         IN  /\ sockets' = Append(sockets, WebSocket(session_id))
             /\ IF session_id \in DOMAIN active_connections
                THEN /\ lists' = [lists EXCEPT ![active_connections[session_id]] =
                                                 Append(@, ws)]
                     /\ UNCHANGED active_connections
                ELSE /\ lists' = Append(lists, <<ws>>)
                     /\ active_connections' = (session_id :> fresh) @@ active_connections
      /\ UNCHANGED <<sessions, tasks, sends>>
      /\ UNCHANGED dbvars

\* The client of a WebSocket goes away: from now on send_text to it raises
\* and its endpoint's receive_text raises WebSocketDisconnect.
ClientGone ==
    \E ws \in DOMAIN sockets :
      /\ sockets[ws].client = "open"
      /\ sockets' = [sockets EXCEPT ![ws].client = "gone"]
      /\ UNCHANGED <<sessions, active_connections, lists, tasks, sends>>
      /\ UNCHANGED dbvars

\* list.remove(x)
Remove(list, x) ==
    LET i == CHOOSE j \in DOMAIN list : list[j] = x /\ \A k \in 1..(j - 1) : list[k] # x
    IN  SubSeq(list, 1, i - 1) \o SubSeq(list, i + 1, Len(list))

\* websocket_endpoint: the except WebSocketDisconnect clause.
Disconnect ==
    \E ws \in DOMAIN sockets :
      /\ sockets[ws].client = "gone" /\ sockets[ws].pc = "receive"
      /\ LET session_id == sockets[ws].session_id
             l == active_connections[session_id]
             rest == Remove(lists[l], ws)
         IN  /\ lists' = [lists EXCEPT ![l] = rest]
             /\ active_connections' =
                  IF rest = <<>>
                  THEN [k \in DOMAIN active_connections \ {session_id} |->
                          active_connections[k]]
                  ELSE active_connections
      /\ sockets' = [sockets EXCEPT ![ws].pc = "ended"]
      /\ UNCHANGED <<sessions, tasks, sends>>
      /\ UNCHANGED dbvars

\* The message broadcast_annotation_update builds.
Message(page_index, annotation_data) ==
    [type |-> "annotation_update", page_index |-> page_index,
     annotation_data |-> annotation_data]

\* One connection.send_text(message) of task t inside try / except: pass.
\* ok is FALSE when it raised.
SendText(t, ws, message) == [task |-> t, to |-> ws, message |-> message,
                             ok |-> sockets[ws].client = "open"]

\* A save_annotation request of main.py: its arguments, the list object its
\* broadcast iterates (0 when the session has no connections), the index of
\* the element whose send_text it is suspended in, and its response once it
\* has answered (0 before).  listeners remembers the connections that were
\* registered when the broadcast began.
Task(session_id, page_index, annotation_data, list, pc, code) ==
    [session_id |-> session_id, page_index |-> page_index,
     annotation_data |-> annotation_data, list |-> list, i |-> 0, pc |-> pc,
     code |-> code, listeners |-> IF list = 0 THEN <<>> ELSE lists[list]]

\* save_annotation of main.py up to its first suspension: the lookup, the
\* store into sessions, and broadcast_annotation_update up to the first
\* send_text.
MainSaveAnnotation ==
    \E session_id \in MainSessionIds, page_index \in {0}, annotation_data \in Payloads :
      /\ Len(tasks) < MaxBroadcasts
      /\ LET t == Len(tasks) + 1
             l == IF session_id \in DOMAIN active_connections
                  THEN active_connections[session_id] ELSE 0
         IN  IF session_id \notin DOMAIN sessions
             THEN /\ tasks' = Append(tasks, Task(session_id, page_index, annotation_data,
                                                 0, "done", 404))
                  /\ UNCHANGED <<sessions, sends>>
             ELSE /\ sessions' = [sessions EXCEPT ![session_id].annotations =
                                     (page_index :> annotation_data) @@ @]
                  /\ IF l = 0
                     THEN /\ tasks' = Append(tasks, Task(session_id, page_index,
                                                         annotation_data, 0, "done", 200))
                          /\ UNCHANGED sends
                     ELSE /\ tasks' = Append(tasks, Task(session_id, page_index,
                                                         annotation_data, l, "send", 0))
                          /\ sends' = Append(sends, SendText(t, lists[l][1],
                                                Message(page_index, annotation_data)))
      /\ UNCHANGED <<active_connections, lists, sockets>>
      /\ UNCHANGED dbvars

\* broadcast_annotation_update resumes from a send_text: the for loop moves
\* to the next index of the list object as it is now, and either sends to
\* that element or ends, and save_annotation returns success.
BroadcastResume ==
    \E t \in DOMAIN tasks :
      /\ tasks[t].pc = "send"
      /\ LET i == tasks[t].i + 1
             list == lists[tasks[t].list]
         IN  IF i < Len(list)
             THEN /\ tasks' = [tasks EXCEPT ![t].i = i]
                  /\ sends' = Append(sends, SendText(t, list[i + 1],
                                        Message(tasks[t].page_index,
                                                tasks[t].annotation_data)))
             ELSE /\ tasks' = [tasks EXCEPT ![t].pc = "done", ![t].code = 200]
                  /\ UNCHANGED sends
      /\ UNCHANGED <<sessions, active_connections, lists, sockets>>
      /\ UNCHANGED dbvars

Connect == ConnectUpTo(MaxSockets)

\* What connection.send_text(data) to ws does: it returns when the client
\* is there; when the client has gone it raises WebSocketDisconnect, raises
\* another exception or returns, depending on the server underneath.
SendOutcomes(ws) ==
    IF sockets[ws].client = "open" THEN {"sent"} ELSE {"sent", "disconnect", "error"}

\* The for loop of websocket_endpoint moves on from index i of list: the
\* index of the next element that is not websocket, 0 when the list ends.
NextOther(list, i, websocket) ==
    IF \E j \in (i + 1)..Len(list) : list[j] # websocket
    THEN CHOOSE j \in (i + 1)..Len(list) :
           list[j] # websocket /\ \A k \in (i + 1)..(j - 1) : list[k] = websocket
    ELSE 0

\* websocket_endpoint: receive_text returns a text and the for loop runs up
\* to its first send_text.
Receive ==
    \E ws \in DOMAIN sockets, data \in {"a"} :
      /\ sockets[ws].pc = "receive" /\ sockets[ws].client = "open"
      /\ Cardinality({ c \in DOMAIN sockets : sockets[c].data # NULL }) < MaxMessages
      /\ LET l == active_connections[sockets[ws].session_id]
             j == NextOther(lists[l], 0, ws)
         IN  IF j = 0
             THEN sockets' = [sockets EXCEPT ![ws].data = data, ![ws].list = l,
                                             ![ws].listeners = lists[l]]
             ELSE \E outcome \in SendOutcomes(lists[l][j]) :
                    sockets' = [sockets EXCEPT
                                  ![ws].data = data, ![ws].list = l,
                                  ![ws].listeners = lists[l],
                                  ![ws].pc = "relay", ![ws].i = j,
                                  ![ws].forwarded =
                                     Append(@, [to |-> lists[l][j], outcome |-> outcome])]
      /\ UNCHANGED <<sessions, active_connections, lists, tasks, sends>>
      /\ UNCHANGED dbvars

\* websocket_endpoint resumes from a send_text of its for loop.  If it
\* returned, the loop moves to the next index of the list object as it is
\* now and sends to that element, or ends and the endpoint waits for the
\* next text.  If it raised WebSocketDisconnect, the except clause removes
\* this websocket from the list; another exception ends the endpoint.
RelayResume ==
    \E ws \in DOMAIN sockets :
      /\ sockets[ws].pc = "relay"
      /\ LET outcome == sockets[ws].forwarded[Len(sockets[ws].forwarded)].outcome
             session_id == sockets[ws].session_id
         IN  IF outcome = "sent"
             THEN LET list == lists[sockets[ws].list]
                      j == NextOther(list, sockets[ws].i, ws)
                  IN  /\ IF j = 0
                         THEN sockets' = [sockets EXCEPT ![ws].pc = "receive"]
                         ELSE \E next \in SendOutcomes(list[j]) :
                                sockets' = [sockets EXCEPT
                                              ![ws].i = j,
                                              ![ws].forwarded =
                                                 Append(@, [to |-> list[j],
                                                            outcome |-> next])]
                      /\ UNCHANGED <<active_connections, lists>>
             ELSE IF outcome = "disconnect"
             THEN LET l == active_connections[session_id]
                      rest == Remove(lists[l], ws)
                  IN  /\ lists' = [lists EXCEPT ![l] = rest]
                      /\ active_connections' =
                           IF rest = <<>>
                           THEN [k \in DOMAIN active_connections \ {session_id} |->
                                   active_connections[k]]
                           ELSE active_connections
                      /\ sockets' = [sockets EXCEPT ![ws].pc = "ended"]
             ELSE /\ sockets' = [sockets EXCEPT ![ws].pc = "failed"]
                  /\ UNCHANGED <<active_connections, lists>>
      /\ UNCHANGED <<sessions, tasks, sends>>
      /\ UNCHANGED dbvars

NextRealtime ==
    \/ MainUploadPdf
    \/ Connect
    \/ ClientGone
    \/ Disconnect
    \/ MainSaveAnnotation
    \/ BroadcastResume

SpecRealtime == Init /\ [][NextRealtime]_vars

\* The WebSocket endpoints alone: clients that connect, send a text and go.
NextRelay ==
    \/ ConnectUpTo(MaxRelaySockets)
    \/ ClientGone
    \/ Disconnect
    \/ Receive
    \/ RelayResume

SpecRelay == Init /\ [][NextRelay]_vars

---------------------------------------------------------------------------
(* Properties of calendar placement.                                       *)

\* The active documents of registry table b whose event_date is d.
OnDate(b, d) == { o \in DOMAIN b : b[o].is_active /\ b[o].event_date = d }

\* The event dates in use in table b.
DatesOf(b) == { b[o].event_date : o \in DOMAIN b } \ {NULLINT}

\* The order_position values on date d are exactly 0..k-1, each used once.
Dense(b, d) ==
    /\ { b[o].order_position : o \in OnDate(b, d) } = 0..(Cardinality(OnDate(b, d)) - 1)
    /\ \A o1, o2 \in OnDate(b, d) :
         b[o1].order_position = b[o2].order_position => o1 = o2

\* The last request was a successful call of handler op.
Served(op) == last.op = op /\ last.code = 200

\* C1: after any successful reorder_beo call, on every event date the
\* order_position values of the active documents are exactly 0..k-1.
C1_DenseAfterReorder ==
    Served("reorder_beo") => \A d \in DatesOf(beos) : Dense(beos, d)

\* C2: reorder_beo of document sid at position p, 0 <= p <= k, on a date
\* whose k other active documents hold positions 0..k-1: every other document
\* at a position >= p moves up by one, every other document below p stays,
\* their relative order is kept, sid ends at p and the positions are 0..k.
C2_ReorderShifts ==
    [][ (last'.op = "reorder_beo" /\ last'.code = 200 /\ steps' = steps + 1) =>
          LET sid == last'.sid
              d == beos'[sid].event_date
              p == beos'[sid].order_position
              others == OnDate(beos, d) \ {sid}
              k == Cardinality(others)
          IN  ( /\ { beos[o].order_position : o \in others } = 0..(k - 1)
                /\ p \in 0..k )
              => /\ \A o \in others :
                      beos'[o].order_position =
                        IF beos[o].order_position >= p
                        THEN beos[o].order_position + 1
                        ELSE beos[o].order_position
                 /\ \A o1, o2 \in others :
                      beos[o1].order_position < beos[o2].order_position
                        => beos'[o1].order_position < beos'[o2].order_position
                 /\ OnDate(beos', d) = others \cup {sid}
                 /\ Dense(beos', d) ]_vars

\* C2 witness: a document has just been placed at position 1 among two
\* others of its date that held 0 and 1, which now hold 0 and 2.
C2_Witness ==
    /\ Served("reorder_beo")
    /\ last.arg = <<0, 1>>
    /\ LET d == beos[last.sid].event_date
       IN  /\ Cardinality(OnDate(beos, d)) = 3
           /\ beos[last.sid].order_position = 1
           /\ { beos[o].order_position : o \in OnDate(beos, d) \ {last.sid} } = {0, 2}

\* C4: in every reachable state, on every event date the order_position
\* values of the active documents are exactly 0..k-1.
C4_DenseAlways == \A d \in DatesOf(beos) : Dense(beos, d)

\* The derived columns of row b agree with its event_date.
DerivedFromDate(b) ==
    IF b.event_date = NULLINT
    THEN b.day_of_week = NULL /\ b.week_number = NULLINT /\ b.year = NULLINT
    ELSE /\ b.day_of_week = StrftimeA(b.event_date)
         /\ b.week_number = IsoWeekNumber(YearOf(b.event_date), b.event_date)
         /\ b.year = YearOf(b.event_date)

\* C11: after every step, each document's day_of_week, week_number and year
\* are unset together with event_date or are the weekday name, ISO week
\* number and year of its event_date; and a step that leaves a document's
\* event_date as it was leaves the three as they were.
C11_DerivedFieldsConsistent ==
    [][ /\ \A sid \in DOMAIN beos' : DerivedFromDate(beos'[sid])
        /\ \A sid \in DOMAIN beos \cap DOMAIN beos' :
              beos'[sid].event_date = beos[sid].event_date
                => ColumnsOf(beos'[sid]) = ColumnsOf(beos[sid]) ]_vars

\* C11 witness: a document that was uploaded for Tuesday 2025-10-28 has just
\* been moved to Friday 2027-01-01, which lies in ISO week 53 (of 2026).
C11_Witness ==
    /\ Served("reorder_beo")
    /\ beos[last.sid].filename = FileName(10, 28, "Tuesday", ".pdf")
    /\ beos[last.sid].event_date = DateTime(2027, 1, 1, 0)
    /\ beos[last.sid].day_of_week = "Friday"
    /\ beos[last.sid].week_number = 53
    /\ beos[last.sid].year = 2027

---------------------------------------------------------------------------
(* Properties of pages and ingest.                                         *)

\* The page_index values of the page rows of document sid in table pg.
PageIndices(pg, sid) == { p.page_index : p \in { q \in pg : q.beo_id = sid } }

\* C5: for every document the page_index values of its page rows are exactly
\* 0..total_pages-1, and it has total_pages page rows.
C5_PageIndexDense ==
    \A sid \in DOMAIN beos :
        /\ PageIndices(pages, sid) = 0..(beos[sid].total_pages - 1)
        /\ Cardinality(PagesOf(World, sid)) = beos[sid].total_pages

IngestHandlers == {"upload_pdf", "upload_multiple_pdfs"}

\* C7: an ingest that fails commits no document row and no page row; one
\* that succeeds commits the document row of every PDF it stored together
\* with one page row per page the rasterizer produced, and changes no row of
\* any other document.
C7_IngestAtomic ==
    [][ (last'.op \in IngestHandlers /\ steps' = steps + 1) =>
          IF last'.code = 200
          THEN LET new == nextId..(nextId' - 1)
               IN  /\ DOMAIN beos' = DOMAIN beos \cup new
                   /\ \A o \in DOMAIN beos : beos'[o] = beos[o]
                   /\ { p \in pages' : p.beo_id \notin new } = pages
                   /\ annotations' = annotations
                   /\ \A sid \in new :
                        /\ PageIndices(pages', sid) = Rasterize(originals'[sid])
                        /\ beos'[sid].total_pages = Cardinality(PageIndices(pages', sid))
          ELSE beos' = beos /\ pages' = pages /\ annotations' = annotations ]_vars

\* C7 witness: an upload has just failed after its original and its first
\* thumbnail were written, and none of its rows is in the registry.
C7_Witness ==
    /\ last.op = "upload_pdf" /\ last.code = 500
    /\ last.sid \in DOMAIN originals
    /\ <<last.sid, 0>> \in thumbnails
    /\ last.sid \notin DOMAIN beos
    /\ PagesOf(World, last.sid) = {}

---------------------------------------------------------------------------
(* Properties of status and annotations.                                   *)

\* The status changes of the lifecycle new -> selected ->
\* ready_for_annotation -> annotated.
LifecycleSteps ==
    { <<"new", "selected">>, <<"selected", "ready_for_annotation">>,
      <<"ready_for_annotation", "annotated">> }

\* C6: every change of an existing document's status is a step of the
\* lifecycle new -> selected -> ready_for_annotation -> annotated, so that
\* no document is annotated before it has been ready_for_annotation.
C6_LifecycleOrder ==
    [][ \A sid \in DOMAIN beos \cap DOMAIN beos' :
          beos'[sid].status # beos[sid].status
            => <<beos[sid].status, beos'[sid].status>> \in LifecycleSteps ]_vars

\* The annotation rows of document sid in table an, in table order.
AnnotationsOf(an, sid) ==
    LET OfBeo(row) == row.beo_id = sid IN SelectSeq(an, OfBeo)

\* C8: a successful delete_beo of sid leaves no document, page or annotation
\* row of sid and changes no row of any other document.
C8_DeleteCascades ==
    [][ (last'.op = "delete_beo" /\ last'.code = 200 /\ steps' = steps + 1) =>
          LET sid == last'.sid
          IN  /\ sid \in DOMAIN beos
              /\ DOMAIN beos' = DOMAIN beos \ {sid}
              /\ { p \in pages' : p.beo_id = sid } = {}
              /\ AnnotationsOf(annotations', sid) = <<>>
              /\ \A o \in DOMAIN beos' :
                   /\ beos'[o] = beos[o]
                   /\ { p \in pages' : p.beo_id = o } = { p \in pages : p.beo_id = o }
                   /\ AnnotationsOf(annotations', o) = AnnotationsOf(annotations, o)
              /\ Cardinality(pages') = Cardinality(pages) - Cardinality(PagesOf(World, sid))
              /\ Len(annotations') = Len(annotations) - Len(AnnotationsOf(annotations, sid)) ]_vars

\* C8 witness: a document that had pages has just been deleted while
\* another document with pages and an annotation is in the registry.
C8_Witness ==
    /\ Served("delete_beo")
    /\ <<last.sid, 0>> \in thumbnails
    /\ \E o \in DOMAIN beos :
         /\ PagesOf(World, o) # {}
         /\ AnnotationsOf(annotations, o) # <<>>

\* C9: a successful save_annotation that repeats the successful request
\* before it (same document, page_index and payload) changes no row, and
\* leaves exactly one annotation row for that page, holding that payload.
C9_SaveIdempotent ==
    [][ (last'.op = "save_annotation" /\ last'.code = 200 /\ last'.again
         /\ steps' = steps + 1) =>
          LET rows == AnnotationRows([annotations |-> annotations'], last'.sid,
                                     last'.arg[1])
          IN  /\ beos' = beos
              /\ pages' = pages
              /\ annotations' = annotations
              /\ Cardinality(rows) = 1
              /\ \A i \in rows : annotations'[i].canvas_data = last'.arg[2] ]_vars

\* C9 witness: the same save_annotation has just been served twice in a row.
C9_Witness ==
    /\ Served("save_annotation")
    /\ last.again
    /\ Cardinality(AnnotationRows(World, last.sid, last.arg[1])) = 1

---------------------------------------------------------------------------
(* Properties of concurrent requests.                                      *)

\* The beos tables a reorder_beo request r can leave when it runs alone on
\* one of the tables of bs.
ReorderResults(bs, r) ==
    UNION { LET w == [EmptyWorld EXCEPT !.beos = b]
            IN  { reorder_beo(w, r.sid, r.event_date, r.order_position, q).w.beos :
                    q \in OrderByPosition(w, SameDay(w, FromIsoFormat(r.event_date), r.sid)) }
            : b \in bs }

\* Two reorder_beo requests for the same date have both committed, and the
\* second read its rows before the first committed.
TwoReordersOverlapped ==
    /\ Len(reqs) = 2
    /\ \A i \in 1..2 : reqs[i].op = "reorder_beo" /\ reqs[i].pc = "done"
    /\ reqs[1].event_date = reqs[2].event_date
    /\ reqs[1].seen = reqs[2].seen
    /\ last.code = 200

\* C3: two reorder_beo calls on one date that run concurrently leave the
\* registry as one of the two serial orders of the calls leaves it.
C3_ConcurrentReordersSerial ==
    TwoReordersOverlapped =>
        beos \in ReorderResults(ReorderResults({reqs[1].seen.beos}, reqs[1]), reqs[2])
                 \cup ReorderResults(ReorderResults({reqs[1].seen.beos}, reqs[2]), reqs[1])

\* C10: in every reachable state there is at most one annotation row per
\* (document, page_index).
C10_OneAnnotationPerPage ==
    \A i, j \in DOMAIN annotations :
        ( annotations[i].beo_id = annotations[j].beo_id
          /\ annotations[i].page_index = annotations[j].page_index ) => i = j

---------------------------------------------------------------------------
(* Properties of the annotation notification.                              *)

\* A broadcast of (document, page_index, payload) to the realtime listeners
\* has been started.
Notified(sid, page_index, payload) ==
    \E t \in DOMAIN tasks :
        /\ tasks[t].code # 404
        /\ tasks[t].session_id = sid
        /\ tasks[t].page_index = page_index
        /\ tasks[t].annotation_data = payload

\* C12: a successful save_annotation of the database variant comes with a
\* notification to the realtime listeners carrying the document id, the
\* page index and the payload.
C12_SaveNotifies ==
    Served("save_annotation") => Notified(last.sid, last.arg[1], last.arg[2])

\* The send_text calls task t has made.
SendsOf(t) == { n \in DOMAIN sends : sends[n].task = t }

\* The elements of a list.
Elements(list) == { list[i] : i \in DOMAIN list }

\* The last save_annotation stored for the session and page of task t.
LastStored(t) ==
    CHOOSE u \in DOMAIN tasks :
        /\ tasks[u].code # 404
        /\ tasks[u].session_id = tasks[t].session_id
        /\ tasks[u].page_index = tasks[t].page_index
        /\ \A v \in DOMAIN tasks :
             ( tasks[v].code # 404 /\ tasks[v].session_id = tasks[t].session_id
               /\ tasks[v].page_index = tasks[t].page_index ) => v <= u

\* C13: when a send_text of a save_annotation's broadcast has failed, the
\* request still answers success, the annotation stays stored, no connection
\* is sent to twice, and every connection that was registered for the session
\* when the broadcast began and still is when it ends has been sent to.
C13_DeliveryFailureHarmless ==
    \A t \in DOMAIN tasks :
        ( tasks[t].pc = "done" /\ \E n \in SendsOf(t) : ~sends[n].ok ) =>
            /\ tasks[t].code = 200
            /\ tasks[t].page_index \in DOMAIN sessions[tasks[t].session_id].annotations
            /\ sessions[tasks[t].session_id].annotations[tasks[t].page_index]
                 = tasks[LastStored(t)].annotation_data
            /\ \A m, n \in SendsOf(t) : sends[m].to = sends[n].to => m = n
            /\ \A ws \in Elements(tasks[t].listeners) \cap Elements(lists[tasks[t].list]) :
                 \E n \in SendsOf(t) : sends[n].to = ws

---------------------------------------------------------------------------
(* Properties of promotion (process_selected_pages).                       *)

\* The page rows of document sid in a pages table.
RowsOf(ps, sid) == { p \in ps : p.beo_id = sid }

\* C14: after a successful process_selected_pages(d, S) the status of d is
\* ready_for_annotation, every index of S has a page row of d whose
\* high_res_path names a stored file, and the keys of the returned
\* high_res_pages are exactly the indices of S.
C14_PromoteResult ==
    Served("process_selected_pages") =>
        /\ beos[last.sid].status = "ready_for_annotation"
        /\ \A i \in Elements(last.arg.selected_pages) :
             \E p \in RowsOf(pages, last.sid) :
                 /\ p.page_index = i
                 /\ p.high_res_path # NOPATH
                 /\ p.high_res_path \in high_res
        /\ last.arg.high_res_pages = Elements(last.arg.selected_pages)

\* A page row without its high_res_path.
WithoutHighRes(p) ==
    [beo_id |-> p.beo_id, page_index |-> p.page_index,
     original_order |-> p.original_order, thumbnail_path |-> p.thumbnail_path]

C16_ArtifactMissingTyped ==
    [][ (last'.op = "process_selected_pages" /\ steps' = steps + 1
         /\ last'.sid \in DOMAIN beos) =>
          /\ last'.code = 500 <=> last'.sid \notin DOMAIN originals
          /\ last'.code = 500 => (beos' = beos /\ pages' = pages) ]_vars

---------------------------------------------------------------------------
(* Properties of derived documents (create_beo_from_pages).                *)

\* C17: a successful create_beo_from_pages(parent, number, indices,
\* position) adds one document with a fresh id, the given number, status
\* ready_for_annotation, the parent's file_type and calendar columns,
\* total_pages = len(indices), and one page row per position j of indices
\* with page_index = j and original_order = indices[j]; the parent's
\* document row and page rows are unchanged.
C17_SplitCreates ==
    [][ (last'.op = "create_beo_from_pages" /\ last'.code = 200 /\ steps' = steps + 1) =>
          LET a == last'.arg
              new == last'.sid
              parent == a.parent_session_id
          IN  /\ new \notin DOMAIN beos
              /\ DOMAIN beos' = DOMAIN beos \cup {new}
              /\ beos'[new].beo_number = a.beo_number
              /\ beos'[new].status = "ready_for_annotation"
              /\ beos'[new].file_type = beos[parent].file_type
              /\ ColumnsOf(beos'[new]) = ColumnsOf(beos[parent])
              /\ beos'[new].total_pages = Len(a.page_indices)
              /\ { <<p.page_index, p.original_order>> : p \in RowsOf(pages', new) }
                   = { <<j - 1, a.page_indices[j]>> : j \in DOMAIN a.page_indices }
              /\ Cardinality(RowsOf(pages', new)) = Len(a.page_indices)
              /\ beos'[parent] = beos[parent]
              /\ RowsOf(pages', parent) = RowsOf(pages, parent) ]_vars

\* C18: a successful create_beo_from_pages that repeats the successful
\* request before it (same parent, number, page indices and position) adds
\* no page row: the registry holds the pages of the split once.
C18_SplitRetrySafe ==
    [][ (last'.op = "create_beo_from_pages" /\ last'.code = 200 /\ steps' = steps + 1
         /\ last.op = "create_beo_from_pages" /\ last.code = 200
         /\ last.arg = last'.arg) =>
          pages' = pages ]_vars

---------------------------------------------------------------------------
(* Properties of page selection (select_pages).                            *)

---------------------------------------------------------------------------
(* Properties of upload validation.                                        *)

\* The status upload_pdf answers when the PDF cannot be rasterized.
RasterizationFailed ==
    CHOOSE c \in { upload_pdf(EmptyWorld, Menu, Malformed, "daily", now, NoFault).code :
                     now \in Nows } : TRUE

\* C20: upload_pdf of a file whose name does not end in .pdf fails with an
\* answer that differs from the one given when rasterization fails, and
\* stores nothing: no original, no document row, no page row, no thumbnail.
C20_NonPdfRejected ==
    [][ (last'.op = "upload_pdf" /\ steps' = steps + 1 /\ last'.arg.ext # ".pdf") =>
          /\ last'.code \notin {200, RasterizationFailed}
          /\ beos' = beos
          /\ pages' = pages
          /\ originals' = originals
          /\ thumbnails' = thumbnails ]_vars

---------------------------------------------------------------------------
(* Properties of failed requests.                                          *)

\* The handlers whose uncommitted work is discarded by get_db.
UnguardedHandlers == {"process_selected_pages", "create_beo_from_pages", "reorder_beo"}

\* C21: a process_selected_pages, create_beo_from_pages or reorder_beo
\* request that fails, at whatever step, leaves the committed document,
\* page and annotation rows exactly as they were: no new document row, page
\* row, high-res reference, status or position of it is committed.
C21_FailureLeavesRegistry ==
    [][ (last'.op \in UnguardedHandlers /\ last'.code # 200 /\ steps' = steps + 1) =>
          (beos' = beos /\ pages' = pages /\ annotations' = annotations) ]_vars

\* C21 witness: a create_beo_from_pages request has failed after it flushed
\* its document row and wrote its first high-res file, and no row of the
\* new document is in the registry.
C21_Witness ==
    /\ last.op = "create_beo_from_pages" /\ last.code = 500
    /\ <<last.sid, 0>> \in high_res
    /\ last.sid \notin DOMAIN beos
    /\ RowsOf(pages, last.sid) = {}

\* The handlers that look a document up by the id the client sends.
LookupHandlers ==
    {"select_pages", "process_selected_pages", "create_beo_from_pages", "save_annotation",
     "delete_beo", "reorder_beo", "get_session"}

\* The document id a served request was about.
Target(resp) ==
    IF resp.op = "create_beo_from_pages" THEN resp.arg.parent_session_id ELSE resp.sid

\* C22: select_pages, process_selected_pages, create_beo_from_pages,
\* save_annotation, delete_beo, reorder_beo and get_session called with a
\* document id that is not in the registry answer 404 and change no row and
\* no stored file.
C22_UnknownIdNotFound ==
    [][ (last'.op \in LookupHandlers /\ steps' = steps + 1
         /\ Target(last') \notin DOMAIN beos) =>
          /\ last'.code = 404
          /\ beos' = beos /\ pages' = pages /\ annotations' = annotations
          /\ originals' = originals /\ thumbnails' = thumbnails
          /\ high_res' = high_res ]_vars

\* C22 witness: delete_beo has answered 404 for an id that is not in a
\* registry that holds other documents with pages.
C22_Witness ==
    /\ last.op = "delete_beo" /\ last.code = 404
    /\ last.sid \notin DOMAIN beos
    /\ \E o \in DOMAIN beos : RowsOf(pages, o) # {}

---------------------------------------------------------------------------
(* Properties of the reads.                                                *)

\* Every page row of document sid has a high-res file.
AllPromoted(sid) ==
    /\ RowsOf(pages, sid) # {}
    /\ \A p \in RowsOf(pages, sid) : p.high_res_path \in high_res

\* C23: get_session of an uploaded document whose pages have all been
\* promoted reports as total_pages the number of pages the rasterizer made
\* of its PDF at upload, which is the number of its thumbnail files.
C23_RoundTripTotalPages ==
    ( Served("get_session") /\ last.sid \in DOMAIN originals /\ AllPromoted(last.sid) ) =>
        /\ last.arg.total_pages = Cardinality(Rasterize(originals[last.sid]))
        /\ last.arg.total_pages = Cardinality({ t \in thumbnails : t[1] = last.sid })

\* C23 witness: get_session has been served for an uploaded PDF of
\* MaxPdfPages pages after all of them were promoted.
C23_Witness ==
    /\ Served("get_session")
    /\ last.sid \in DOMAIN originals
    /\ AllPromoted(last.sid)
    /\ beos[last.sid].status = "ready_for_annotation"
    /\ Cardinality(RowsOf(pages, last.sid)) = MaxPdfPages

---------------------------------------------------------------------------
(* Properties of filename dates.                                           *)

\* The year a filename date of month mm and day dd resolves to at time now:
\* the current year, or the next when the date lies more than 180 days back.
ResolvedYear(mm, dd, now) ==
    IF ToOrdinal(FromIsoFormat(now)) - Ymd2Ord(now.y, mm, dd) > 180
    THEN now.y + 1 ELSE now.y

\* The calendar columns a filename resolves to at time now: those of its
\* month and day in the resolved year, with day_of_week, week_number and
\* year derived from that date, or none when the name has no date or the
\* date does not exist.
ResolvedColumns(filename, now) ==
    IF filename.mm = -1 \/ ~ValidYmd(now.y, filename.mm, filename.dd)
    THEN NoDateColumns
    ELSE LET y == ResolvedYear(filename.mm, filename.dd, now)
         IN  IF ValidYmd(y, filename.mm, filename.dd)
             THEN DateColumns(y, DateTime(y, filename.mm, filename.dd, 0))
             ELSE NoDateColumns

\* C24 as stated: an uploaded file gets the columns its name resolves to,
\* a name without a valid date is no error, and "1028 Tuesday.pdf" gets
\* Oct 28 with day_of_week "Tuesday".
C24_FilenameDayName ==
    (last.op = "upload_pdf" /\ last.arg.ext = ".pdf") =>
        /\ last.code = 200
        /\ ColumnsOf(beos[last.sid]) = ResolvedColumns(last.arg, last.now)
        /\ last.arg = FileName(10, 28, "Tuesday", ".pdf") =>
             /\ beos[last.sid].event_date
                  = DateTime(beos[last.sid].year, 10, 28, 0)
             /\ beos[last.sid].day_of_week = "Tuesday"

\* C24 amended: an uploaded file gets the columns its name resolves to, with
\* day_of_week the weekday name of the resolved date, whatever day name the
\* filename carries; a name without a valid date is no error and leaves the
\* four columns unset.
C24_FilenameDate ==
    (last.op = "upload_pdf" /\ last.arg.ext = ".pdf") =>
        /\ last.code = 200
        /\ ColumnsOf(beos[last.sid]) = ResolvedColumns(last.arg, last.now)
        /\ beos[last.sid].event_date # NULLINT =>
             beos[last.sid].day_of_week = StrftimeA(beos[last.sid].event_date)

\* C24 witness: a file whose date lies 181 days back has been uploaded and
\* stands in next year, and one whose date lies 180 days back stands in the
\* current year.
C24_Witness ==
    /\ Served("upload_pdf")
    /\ last.now = IsoString(2025, 10, 20, 9)
    /\ last.arg = FileName(4, 22, "Tuesday", ".pdf")
    /\ beos[last.sid].event_date = DateTime(2026, 4, 22, 0)
    /\ \E o \in DOMAIN beos :
         /\ beos[o].filename = FileName(4, 23, "Wednesday", ".pdf")
         /\ beos[o].event_date = DateTime(2025, 4, 23, 0)

---------------------------------------------------------------------------
(* Properties of the calendar reads.                                       *)

\* The documents listed in the buckets of a get_week_beos result.
Listed(days) ==
    UNION { { days[d][i].session_id : i \in 1..Len(days[d]) } : d \in DOMAIN days }

\* The calendar days of ISO week week_number of year, as ordinals.
WeekDays(year, week_number) ==
    LET monday == ToOrdinal(WeekStart(year, week_number))
    IN  monday..(monday + 6)

\* C25: get_week_beos(year, week_number) lists every active document whose
\* event_date falls on one of the seven days of the week, at any time of
\* day, and no other document, each in the bucket of the weekday of its
\* event_date, and every bucket in ascending order_position.
C25_WeekListing ==
    Served("get_week_beos") =>
        LET days == last.arg.days
        IN  /\ Listed(days) =
                 { o \in DOMAIN beos :
                     /\ beos[o].is_active
                     /\ beos[o].event_date # NULLINT
                     /\ ToOrdinal(beos[o].event_date)
                          \in WeekDays(last.arg.year, last.arg.week_number) }
            /\ \A d \in DOMAIN days :
                 /\ \A i \in 1..Len(days[d]) :
                      StrftimeA(beos[days[d][i].session_id].event_date) = d
                 /\ \A i, j \in 1..Len(days[d]) :
                      i < j => days[d][i].order_position <= days[d][j].order_position

---------------------------------------------------------------------------
(* Properties of the annotated status.                                     *)

\* C26: once save_annotation has succeeded on a document, whatever its
\* status was, its status is annotated; and in every reachable state a
\* document whose status is annotated has at least one annotation row.
C26_AnnotatedHasRow ==
    /\ Served("save_annotation") => beos[last.sid].status = "annotated"
    /\ \A o \in DOMAIN beos : beos[o].status = "annotated" => AnnotationsOf(annotations, o) # <<>>

\* save_annotation has succeeded on a document that process_selected_pages
\* had made ready_for_annotation.
C26_Witness ==
    /\ Served("save_annotation")
    /\ \E p \in RowsOf(pages, last.sid) : p.high_res_path # NOPATH

---------------------------------------------------------------------------
(* Properties of the original PDFs.                                        *)

\* C27: no request writes the original PDF of a document again: every file
\* of the originals directory stays, with the bytes it was stored with,
\* whatever the request and its outcome; and process_selected_pages and
\* create_beo_from_pages succeed only by reading the original of the
\* document, never for a document that has thumbnails and no original.
C27_OriginalWrittenOnce ==
    [][ /\ \A o \in DOMAIN originals :
             o \in DOMAIN originals' /\ originals'[o] = originals[o]
        /\ last'.op = "process_selected_pages" /\ last'.code = 200
             => /\ last'.sid \in DOMAIN originals
                /\ last'.arg.high_res_pages \subseteq Rasterize(originals[last'.sid])
        /\ last'.op = "create_beo_from_pages" /\ last'.code = 200
             => last'.arg.parent_session_id \in DOMAIN originals ]_vars

\* A document with an original has been deleted, and one that
\* process_all_pages derived, with thumbnails and no original, is there.
C27_Witness ==
    /\ Served("delete_beo")
    /\ last.sid \in DOMAIN originals
    /\ \E o \in DOMAIN beos : o \notin DOMAIN originals /\ <<o, 0>> \in thumbnails

---------------------------------------------------------------------------
(* Properties of the date strings.                                         *)

\* The registry rows and the files of the three directories.
Persisted == <<beos, pages, annotations, originals, thumbnails, high_res>>

\* C28: a request that carries a date string that does not parse
\* (upload_multiple_pdfs with a date for a file, update_beo_metadata,
\* reorder_beo, get_day_beos) is answered 400, and no row and no file is
\* created or changed.
C28_UnparsableDateRejected ==
    [][ (\E d \in last'.dates : ~IsoParses(d))
          => last'.code = 400 /\ Persisted' = Persisted ]_vars

---------------------------------------------------------------------------
(* Properties of the reads of image files.                                 *)

\* A request has been served in this step.
Answered == steps' = steps + 1

\* C29: when a page row names a thumbnail or high-res file that is not in
\* its directory, get_week_beos, get_day_beos and export_session do not end
\* in an unhandled failure (500), and they change no row and no file.
C29_MissingArtifactRecoverable ==
    [][ ( /\ Answered
          /\ last'.op \in {"get_week_beos", "get_day_beos", "export_session"}
          /\ MissingImages # {} )
          => last'.code # 500 /\ Persisted' = Persisted ]_vars

---------------------------------------------------------------------------
(* Properties of process_all_pages.                                        *)

\* The entries of session_ids that process_all_pages does not skip: those
\* of a document of the registry whose original PDF is in the store.
Processed(session_ids) ==
    LET Eligible(o) == o \in DOMAIN beos /\ o \in DOMAIN originals
    IN  SelectSeq(session_ids, Eligible)

\* The document process_all_pages makes of source o under the id new.
DerivedFrom(new, o) ==
    /\ beos'[new].status = "ready_for_annotation"
    /\ beos'[new].filename = beos[o].filename
    /\ beos'[new].file_type = beos[o].file_type
    /\ ColumnsOf(beos'[new]) = ColumnsOf(beos[o])
    /\ beos'[new].total_pages = Cardinality(Rasterize(originals[o]))
    /\ RowsOf(pages', new) =
         { BEOPage(new, i, i, <<new, i>>, <<new, i>>) : i \in Rasterize(originals[o]) }
    /\ \A i \in Rasterize(originals[o]) : <<new, i>> \in thumbnails' /\ <<new, i>> \in high_res'

\* C30: a successful process_all_pages(session_ids) creates one new document
\* for each entry of session_ids that is a known document whose original
\* exists, and none for the other entries; the new document has status
\* ready_for_annotation, the filename, file_type, event_date and derived
\* columns of its source, and one page row per page of the source with
\* page_index = original_order and a stored thumbnail and high-res image;
\* the rows that were there are unchanged.  A failed one leaves every table
\* as it was.
C30_ProcessAllPages ==
    [][ last'.op = "process_all_pages" /\ Answered =>
          LET done == Processed(last'.arg)
          IN  IF last'.code = 200
              THEN /\ DOMAIN beos' = DOMAIN beos \cup { nextId + k - 1 : k \in 1..Len(done) }
                   /\ \A k \in 1..Len(done) : DerivedFrom(nextId + k - 1, done[k])
                   /\ \A o \in DOMAIN beos :
                        beos'[o] = beos[o] /\ RowsOf(pages', o) = RowsOf(pages, o)
                   /\ annotations' = annotations
              ELSE beos' = beos /\ pages' = pages /\ annotations' = annotations ]_vars

\* A successful process_all_pages of two ids has made one document: the
\* other id was skipped.
C30_Witness ==
    /\ Served("process_all_pages")
    /\ Len(last.arg) = 2
    /\ last.sid \in DOMAIN beos
    /\ nextId = last.sid + 1

---------------------------------------------------------------------------
(* Properties of what reorder_beo leaves alone.                            *)

\* The columns of a row that reorder_beo never writes.
KeptColumns(b) ==
    [filename |-> b.filename, beo_number |-> b.beo_number, status |-> b.status,
     file_type |-> b.file_type, is_active |-> b.is_active, total_pages |-> b.total_pages]

---------------------------------------------------------------------------
(* Properties of the files the page rows name.                             *)

\* C32: in every reachable state (the application being the only one that
\* touches the directories), the thumbnail_path of every page row and, when
\* it is set, its high_res_path name a file that is in the directory, under
\* the id of the row's document and the row's page_index.
C32_PageFilesStored ==
    \A p \in pages :
      /\ p.thumbnail_path = <<p.beo_id, p.page_index>>
      /\ p.thumbnail_path \in thumbnails
      /\ p.high_res_path # NOPATH =>
           p.high_res_path = <<p.beo_id, p.page_index>> /\ p.high_res_path \in high_res

\* A request that wrote images has failed and left files behind, next to the
\* page rows of a promoted document.
C32_Witness ==
    /\ last.code = 500
    /\ \E p \in pages : p.high_res_path # NOPATH
    /\ \E f \in thumbnails \cup high_res :
         \A p \in pages : p.thumbnail_path # f /\ p.high_res_path # f

---------------------------------------------------------------------------
(* Properties of the pages the annotation rows name.                       *)

\* C33: in every reachable state the (beo_id, page_index) of every
\* annotation row is that of a page row of the document, with
\* 0 <= page_index < total_pages: save_annotation for a page_index the
\* document does not have adds no row.
C33_AnnotationOnPage ==
    \A i \in DOMAIN annotations :
      LET a == annotations[i]
      IN  /\ a.beo_id \in DOMAIN beos
          /\ a.page_index \in 0..(beos[a.beo_id].total_pages - 1)
          /\ \E p \in PagesOf(World, a.beo_id) : p.page_index = a.page_index

---------------------------------------------------------------------------
(* Properties of the stored week of a document.                            *)

\* C34: get_week_beos called with the year and week_number stored on a
\* document that has an event_date lists that document, also when the
\* event_date is in the first or last days of a calendar year, where the
\* ISO week belongs to the neighbouring year.
C34_OwnWeekLists ==
    last.op = "get_week_beos" =>
        \A o \in DOMAIN beos :
            ( /\ beos[o].event_date # NULLINT
              /\ beos[o].is_active
              /\ beos[o].year = last.arg.year
              /\ beos[o].week_number = last.arg.week_number )
            => last.code = 200 /\ o \in Listed(last.arg.days)

---------------------------------------------------------------------------
(* Properties of the WebSocket relay (main.py).                            *)

\* The send_text calls of the for loop of ws to connection c.
ForwardsTo(ws, c) ==
    { n \in DOMAIN sockets[ws].forwarded : sockets[ws].forwarded[n].to = c }

\* The connections registered for the session of ws.
Registered(ws) ==
    IF sockets[ws].session_id \in DOMAIN active_connections
    THEN Elements(lists[active_connections[sockets[ws].session_id]])
    ELSE {}

\* C35: when the for loop of a websocket_endpoint has gone through the list
\* for a text it received, the text has been sent exactly once to every
\* other connection that was registered for the session when it was received
\* and still is, never to the sender, never to a connection of another
\* session and to no connection twice, whatever connected or disconnected
\* while the loop was suspended; an endpoint that has ended on a disconnect
\* is not registered, and no session id maps to an empty list.
C35_RelayExactlyOnce ==
    /\ \A ws \in DOMAIN sockets :
         ( sockets[ws].data # NULL /\ sockets[ws].pc = "receive" ) =>
             /\ ForwardsTo(ws, ws) = {}
             /\ \A c \in DOMAIN sockets :
                  /\ sockets[c].session_id # sockets[ws].session_id => ForwardsTo(ws, c) = {}
                  /\ Cardinality(ForwardsTo(ws, c)) <= 1
                  /\ ( c # ws /\ c \in Elements(sockets[ws].listeners)
                       /\ c \in Registered(ws) )
                       => Cardinality(ForwardsTo(ws, c)) = 1
    /\ \A ws \in DOMAIN sockets : sockets[ws].pc = "ended" => ws \notin Registered(ws)
    /\ \A session_id \in DOMAIN active_connections :
         lists[active_connections[session_id]] # <<>>

====
